---- MODULE Spec2Model ----
(***************************************************************************)
(* State-machine model of the metricmaster tool adapters:                  *)
(*   metricmaster/tools/fi_google_tag_manager.py      (GTM adapter)        *)
(*   metricmaster/tools/fi_google_analytics_enhanced.py (GA4 adapter)      *)
(* and of the bot around them: metricmaster_bot.py (tool registry, main    *)
(* loop) and metricmaster_install.py (install).                            *)
(* A tool call is followed from its entry into called_by_model to the      *)
(* value it returns (or the exception that escapes), with one step per     *)
(* suspension point (token lookup, OAuth flow start).  Everything between  *)
(* two suspension points runs as one step, as it does under asyncio.       *)
(***************************************************************************)
EXTENDS Integers, Sequences, FiniteSets, TLC

VARIABLES
    token_data,     \* self.token_data of the GTM integration
    service,        \* self.service of the GTM integration
    now,            \* time.time()
    pc,             \* where each tool call stands
    call,           \* the toolcall and model_produced_args of each call
    authenticated,  \* the local  authenticated  of called_by_model
    trace,          \* what each call has asked of its collaborators, in order
    resume,         \* the start_external_auth_flow site a call is suspended at
    outcome,        \* what each call returned
    reauth_due,     \* a 401/403 cleared the credentials, no lookup since
    after_clear,    \* the call began while reauth_due
    listed_before,  \* the workspace an earlier call resolved by listing, "" when none
    main_loop,      \* metricmaster_main_loop: where it stands, and what it waits on
    install_run     \* the run of metricmaster_install.install, once it was made

vars == <<token_data, service, now, pc, call, authenticated, trace, resume, outcome,
          reauth_due, after_clear, listed_before, main_loop, install_run>>

(* The variables of the tool adapters, and those of the bot around them. *)
toolvars == <<token_data, service, now, pc, call, authenticated, trace, resume, outcome,
              reauth_due, after_clear, listed_before>>
botvars == <<main_loop, install_run>>

(***************************************************************************)
(* Bounds of the model.                                                    *)
(***************************************************************************)
NumCalls == 1          \* tool calls that may be in flight
MaxMissing == 1        \* how many argument keys a call may leave out
MaxTime == 90          \* the clock stops advancing here
TickStep == 30         \* seconds per clock step

Procs == 1..NumCalls

(***************************************************************************)
(* Program constants.                                                      *)
(***************************************************************************)
ExpiryMargin == 60     \* _ensure_service: expires_at - 60

None == "None"
ServiceBuilt == "tagmanager.v2"
NoToken == [tag |-> None, expires_at |-> 0]
Token(e) == [tag |-> "token", expires_at |-> e]
TokenExpiries == {60, 120}

AuthUrl == "https://oauth/authorize"

GTM == "google_tag_manager"
GA == "google_analytics_enhanced"

(***************************************************************************)
(* Operation strings.  An operation string is a sequence of words; the     *)
(* Python test  "help" in op  is the test that some word of it is "help",  *)
(* and  op == "listTags"  is equality with the one-word string.            *)
(***************************************************************************)
Contains(op, w) == \E i \in 1..Len(op) : op[i] = w

GtmKnownOps == {"listAccounts", "listContainers", "getContainer", "createContainer",
                "listTags", "createTag", "listTriggers", "createTrigger",
                "listVariables", "createVariable", "createVersion",
                "publishVersion", "linkGA4"}

GtmMutatingOps == {"createContainer", "createTag", "createTrigger", "createVariable",
                   "createVersion", "publishVersion", "linkGA4"}

OddOps == { <<>>, <<"help">>, <<"status">>, <<"help", "status">>, <<"status", "help">>,
            <<"list", "help">>, <<"my", "status">>, <<"bogus">>, <<"listtags">> }

GtmOps == { <<o>> : o \in GtmKnownOps } \cup OddOps

(***************************************************************************)
(* Arguments.  args is the set of keys that carry a non-empty value; the   *)
(* value of a present key is fixed per key.                                *)
(***************************************************************************)
GtmArgKeys == {"accountId", "containerId", "workspaceId", "containerName",
               "tagName", "tagType", "triggerName", "triggerType",
               "variableName", "variableType", "versionName", "versionId",
               "measurementId"}

ArgValue == [accountId |-> "123456", containerId |-> "789", workspaceId |-> "10",
             containerName |-> "My Website", tagName |-> "GA4 Config",
             tagType |-> "gaawe", triggerName |-> "All Pages",
             triggerType |-> "pageview", variableName |-> "GA4 ID",
             variableType |-> "c", versionName |-> "v1.0", versionId |-> "5",
             measurementId |-> "G-XXXXXXXXXX",
             propertyId |-> "1", eventName |-> "purchase", dateRange |-> "last90days",
             metrics |-> <<"activeUsers">>, dimensions |-> <<"country">>,
             orderBy |-> <<"activeUsers", "asc">>, limit |-> <<10>>,
             startDate |-> "2024-01-01", endDate |-> "2024-01-31",
             filters |-> <<"country==US">>, startPage |-> "/home",
             endPage |-> "/checkout", funnelSteps |-> <<"steps">>]

Get(args, k) == IF k \in args THEN ArgValue[k] ELSE ""
GetOr(args, k, default) == IF k \in args THEN ArgValue[k] ELSE default

(* The keys each operation reads from args. *)
GtmOpKeys(o) ==
    CASE o = "listAccounts"    -> {}
      [] o = "listContainers"  -> {"accountId"}
      [] o = "getContainer"    -> {"accountId", "containerId"}
      [] o = "createContainer" -> {"accountId", "containerName"}
      [] o = "listTags"        -> {"accountId", "containerId", "workspaceId"}
      [] o = "createTag"       -> {"accountId", "containerId", "workspaceId", "tagName", "tagType"}
      [] o = "listTriggers"    -> {"accountId", "containerId", "workspaceId"}
      [] o = "createTrigger"   -> {"accountId", "containerId", "workspaceId", "triggerName", "triggerType"}
      [] o = "listVariables"   -> {"accountId", "containerId", "workspaceId"}
      [] o = "createVariable"  -> {"accountId", "containerId", "workspaceId", "variableName", "variableType"}
      [] o = "createVersion"   -> {"accountId", "containerId", "workspaceId", "versionName"}
      [] o = "publishVersion"  -> {"accountId", "containerId", "versionId"}
      [] o = "linkGA4"         -> {"accountId", "containerId", "workspaceId", "measurementId"}
      [] OTHER                 -> {}

(* The keys each handler insists on:  if not account_id or not ...: return "Missing ..." *)
GtmRequired(o) ==
    CASE o = "listAccounts"    -> {}
      [] o = "listContainers"  -> {"accountId"}
      [] o = "getContainer"    -> {"accountId", "containerId"}
      [] o = "createContainer" -> {"accountId", "containerName"}
      [] o = "listTags"        -> {"accountId", "containerId"}
      [] o = "createTag"       -> {"accountId", "containerId", "tagName", "tagType"}
      [] o = "listTriggers"    -> {"accountId", "containerId"}
      [] o = "createTrigger"   -> {"accountId", "containerId", "triggerName", "triggerType"}
      [] o = "listVariables"   -> {"accountId", "containerId"}
      [] o = "createVariable"  -> {"accountId", "containerId", "variableName", "variableType"}
      [] o = "createVersion"   -> {"accountId", "containerId"}
      [] o = "publishVersion"  -> {"accountId", "containerId", "versionId"}
      [] o = "linkGA4"         -> {"accountId", "containerId", "measurementId"}
      [] OTHER                 -> {}

(* The args a call may carry: the operation's keys with at most MaxMissing *)
(* of them left out, or no key at all.                                     *)
ArgSets(keys) ==
    { keys \ m : m \in { s \in SUBSET keys : Cardinality(s) <= MaxMissing } } \cup { {} }

GtmArgSets(op) == IF Len(op) = 1 THEN ArgSets(GtmOpKeys(op[1])) ELSE { {} }

(***************************************************************************)
(* Tool calls.  has_args: model_produced_args is a non-empty dict;         *)
(* args: the keys given with a value; empty: the keys given with "";       *)
(* args_error: ckit_cloudtool.sanitize_args reports an error;              *)
(* confirmed: toolcall.confirmed_by_human.                                 *)
(***************************************************************************)
NoCall == [tool |-> None, has_args |-> FALSE, op |-> <<>>, args |-> {}, empty |-> {},
           args_error |-> FALSE, confirmed |-> FALSE, steps |-> <<>>]

GtmCalls ==
    UNION { { [tool |-> GTM, has_args |-> TRUE, op |-> op, args |-> a, empty |-> {},
               args_error |-> e, confirmed |-> c, steps |-> <<>>] :
                 a \in GtmArgSets(op), e \in BOOLEAN, c \in BOOLEAN } : op \in GtmOps }
    \cup { [NoCall EXCEPT !.tool = GTM, !.confirmed = c] : c \in BOOLEAN }

(***************************************************************************)
(* What a call returns.  kind names the string (or the escaping            *)
(* exception); the other fields carry the parts of it a claim speaks of.   *)
(***************************************************************************)
Out(kind) == [kind |-> kind, url |-> "", status |-> 0, key |-> "",
              subject |-> "", authenticated |-> FALSE, oauth_error |-> FALSE,
              lines |-> <<>>]

NoOutcome == Out(None)

(* The strings that start with the failure marker. *)
FailureKinds == {"missing_params", "not_found", "unknown_op", "auth_prompt",
                 "oauth_failed", "auth_error", "api_error", "no_pageview_trigger",
                 "error"}

(* The outcomes that are exceptions leaving called_by_model. *)
RaisedKinds == {"NeedsConfirmation", "TransportQueryError", "IndexError",
                "AttributeError", "Exception"}

(***************************************************************************)
(* The GTM API as the handlers see it.  One handler run gets the answers   *)
(* of the API for that run: the request that fails (fail_at = 0: none)     *)
(* with its HTTP status, and what the two listings the handlers read       *)
(* contain.                                                                *)
(***************************************************************************)
MaxRequests == 3       \* the longest handler (linkGA4) issues three requests
ErrorStatuses == {401, 403, 404, 500}

WorkspaceListings ==
    { [has_key |-> FALSE, items |-> <<>>],        \* {}
      [has_key |-> TRUE, items |-> <<>>],         \* {"workspace": []}
      [has_key |-> TRUE, items |-> <<"w1", "w2">>] }

TriggerListings ==
    { <<>>,
      << [type |-> "click", triggerId |-> "7"] >>,
      << [type |-> "click", triggerId |-> "7"], [type |-> "pageview", triggerId |-> "8"],
         [type |-> "pageview", triggerId |-> "9"] >> }

(* containers().get(): the container, with or without a publicId *)
Containers ==
    { [name |-> "Test", containerId |-> "2", publicId |-> "GTM-XXXX"],
      [name |-> "Test", containerId |-> "2", publicId |-> ""] }

(* No handler reads both a container and a listing, so the two vary apart. *)
ApiAnswers ==
    { [fail_at |-> 0, status |-> 200, workspaces |-> w, triggers |-> t,
       container |-> CHOOSE c \in Containers : c.publicId # ""] :
          w \in WorkspaceListings, t \in TriggerListings }
    \cup
    { [fail_at |-> k, status |-> s, workspaces |-> w, triggers |-> t,
       container |-> CHOOSE c \in Containers : c.publicId # ""] :
          k \in 1..MaxRequests, s \in ErrorStatuses,
          w \in WorkspaceListings, t \in TriggerListings }
    \cup
    { [fail_at |-> 0, status |-> 200, workspaces |-> [has_key |-> FALSE, items |-> <<>>],
       triggers |-> <<>>, container |-> c] : c \in Containers }

MutatingEndpoints == {"containers.create", "tags.create", "triggers.create",
                      "variables.create", "workspaces.create_version",
                      "versions.publish"}

Event(kind) == [kind |-> kind, ep |-> "", ws |-> "", status |-> 0, body |-> <<>>]
Request(ep, ws, body, st) == [kind |-> "api", ep |-> ep, ws |-> ws, status |-> st, body |-> body]

(* A handler run so far: the requests issued and the exception raised. *)
H0 == [log |-> <<>>, raised |-> "", status |-> 0]

(* execute() that sends a request a second time when it fails *)
execute_with_retry(h, svc, api, ep, ws, body) ==
    IF h.raised # "" THEN h
    ELSE IF svc = None THEN [h EXCEPT !.raised = "AttributeError"]
    ELSE LET st == IF Len(h.log) + 1 = api.fail_at THEN api.status ELSE 200
         IN  [log |-> IF st = 200 THEN Append(h.log, Request(ep, ws, body, st))
                      ELSE h.log \o << Request(ep, ws, body, st), Request(ep, ws, body, st) >>,
              raised |-> IF st = 200 THEN "" ELSE "HttpError",
              status |-> IF st = 200 THEN 0 ELSE st]

(* <resource>.<method>(...).execute() on self.service *)
execute(h, svc, api, ep, ws, body) ==
    IF h.raised # "" THEN h
    ELSE IF svc = None THEN [h EXCEPT !.raised = "AttributeError"]
    ELSE LET st == IF Len(h.log) + 1 = api.fail_at THEN api.status ELSE 200
         IN  [log |-> Append(h.log, Request(ep, ws, body, st)),
              raised |-> IF st = 200 THEN "" ELSE "HttpError",
              status |-> IF st = 200 THEN 0 ELSE st]

(* A handler's end: the value it returns unless an exception is under way. *)
Ret(h, out) == [log |-> h.log, raised |-> h.raised, status |-> h.status, ret |-> out]

NeedsConfirmation(key, subject) ==
    [log |-> <<>>, raised |-> "NeedsConfirmation", status |-> 0,
     ret |-> [Out("NeedsConfirmation") EXCEPT !.key = key, !.subject = subject]]

(* The last request of h, answered: what the API returned is noted in it. *)
Answered(h, items) == [h EXCEPT !.log[Len(h.log)].body = items]

(* workspace resolution that takes the last listed workspace *)
resolve_workspace_last(h, svc, api, args) ==
    IF "workspaceId" \in args
    THEN [h |-> h, workspace_id |-> Get(args, "workspaceId")]
    ELSE LET h1 == execute(h, svc, api, "workspaces.list", "", <<>>)
             h2 == Answered(h1, api.workspaces.items)
         IN  IF h1.raised # "" THEN [h |-> h1, workspace_id |-> ""]
             ELSE IF ~api.workspaces.has_key THEN [h |-> h2, workspace_id |-> ""]
             ELSE IF api.workspaces.items = <<>>
                  THEN [h |-> [h2 EXCEPT !.raised = "IndexError"], workspace_id |-> ""]
             ELSE [h |-> h2, workspace_id |-> api.workspaces.items[Len(api.workspaces.items)]]

(* workspace resolution that reuses the workspace an earlier call resolved *)
resolve_workspace_cached(h, svc, api, args) ==
    IF "workspaceId" \in args
    THEN [h |-> h, workspace_id |-> Get(args, "workspaceId")]
    ELSE IF listed_before # "" THEN [h |-> h, workspace_id |-> listed_before]
    ELSE LET h1 == execute(h, svc, api, "workspaces.list", "", <<>>)
             h2 == Answered(h1, api.workspaces.items)
         IN  IF h1.raised # "" THEN [h |-> h1, workspace_id |-> ""]
             ELSE IF ~api.workspaces.has_key THEN [h |-> h2, workspace_id |-> ""]
             ELSE IF api.workspaces.items = <<>>
                  THEN [h |-> [h2 EXCEPT !.raised = "IndexError"], workspace_id |-> ""]
             ELSE [h |-> h2, workspace_id |-> api.workspaces.items[1]]

(* if not workspace_id: list the workspaces and take the first *)
resolve_workspace(h, svc, api, args) ==
    IF "workspaceId" \in args
    THEN [h |-> h, workspace_id |-> Get(args, "workspaceId")]
    ELSE LET h1 == execute(h, svc, api, "workspaces.list", "", <<>>)
             h2 == Answered(h1, api.workspaces.items)
         IN  IF h1.raised # "" THEN [h |-> h1, workspace_id |-> ""]
             ELSE IF ~api.workspaces.has_key THEN [h |-> h2, workspace_id |-> ""]
             ELSE IF api.workspaces.items = <<>>
                  THEN [h |-> [h2 EXCEPT !.raised = "IndexError"], workspace_id |-> ""]
             ELSE [h |-> h2, workspace_id |-> api.workspaces.items[1]]

Missing(args, keys) == \E k \in keys : k \notin args

_list_accounts(svc, api, args) ==
    Ret(execute(H0, svc, api, "accounts.list", "", <<>>), Out("success"))

_list_containers(svc, api, args) ==
    IF Missing(args, {"accountId"}) THEN Ret(H0, Out("missing_params"))
    ELSE Ret(execute(H0, svc, api, "containers.list", "", <<>>), Out("success"))

(* The lines of the container details that carry a field of the container. *)
ContainerDetails(container) ==
    << <<"Name", container.name>>,
       <<"Container ID", container.containerId>>,
       <<"Public ID", container.publicId>>,
       <<"<script>", container.publicId>>,
       <<"<noscript>", container.publicId>> >>

(* _get_container with the containerId in the <noscript> snippet *)
_get_container_wrong_noscript(svc, api, args) ==
    IF Missing(args, {"accountId", "containerId"}) THEN Ret(H0, Out("missing_params"))
    ELSE LET h1 == execute(H0, svc, api, "containers.get", "", <<>>)
         IN  IF h1.raised = "HttpError" /\ h1.status = 404
             THEN Ret([h1 EXCEPT !.raised = "", !.status = 0], Out("not_found"))
             ELSE IF h1.raised # "" THEN Ret(h1, NoOutcome)
             ELSE Ret(Answered(h1, <<api.container.publicId>>),
                      [Out("success") EXCEPT !.lines =
                          [ContainerDetails(api.container) EXCEPT
                              ![5] = <<"<noscript>", api.container.containerId>>]])

_get_container(svc, api, args) ==
    IF Missing(args, {"accountId", "containerId"}) THEN Ret(H0, Out("missing_params"))
    ELSE LET h1 == execute(H0, svc, api, "containers.get", "", <<>>)
         IN  IF h1.raised = "HttpError" /\ h1.status = 404
             THEN Ret([h1 EXCEPT !.raised = "", !.status = 0], Out("not_found"))
             ELSE IF h1.raised # "" THEN Ret(h1, NoOutcome)
             ELSE Ret(Answered(h1, <<api.container.publicId>>),
                      [Out("success") EXCEPT !.lines = ContainerDetails(api.container)])

_create_container(confirmed, svc, api, args) ==
    IF ~confirmed THEN NeedsConfirmation("gtm_write", Get(args, "containerName"))
    ELSE IF Missing(args, {"accountId", "containerName"}) THEN Ret(H0, Out("missing_params"))
    ELSE Ret(execute(H0, svc, api, "containers.create", "", <<>>), Out("success"))

(* the list handlers with the argument check placed after the workspace lookup *)
ListInWorkspace_late_check(ep, svc, api, args) ==
    LET r == resolve_workspace(H0, svc, api, args)
    IN  IF Missing(args, {"accountId", "containerId"}) THEN Ret(r.h, Out("missing_params"))
        ELSE Ret(execute(r.h, svc, api, ep, r.workspace_id, <<>>), Out("success"))

(* _list_tags, _list_triggers, _list_variables: the same code on three resources *)
ListInWorkspace(ep, svc, api, args) ==
    IF Missing(args, {"accountId", "containerId"}) THEN Ret(H0, Out("missing_params"))
    ELSE LET r == resolve_workspace(H0, svc, api, args)
         IN  Ret(execute(r.h, svc, api, ep, r.workspace_id, <<>>), Out("success"))

_list_tags(svc, api, args) == ListInWorkspace("tags.list", svc, api, args)
_list_triggers(svc, api, args) == ListInWorkspace("triggers.list", svc, api, args)
_list_variables(svc, api, args) == ListInWorkspace("variables.list", svc, api, args)

(* _create_tag, _create_trigger, _create_variable, _create_version *)
CreateInWorkspace(ep, required, subject_key, confirmed, svc, api, args) ==
    IF ~confirmed THEN NeedsConfirmation("gtm_write", Get(args, subject_key))
    ELSE IF Missing(args, required) THEN Ret(H0, Out("missing_params"))
    ELSE LET r == resolve_workspace(H0, svc, api, args)
         IN  Ret(execute(r.h, svc, api, ep, r.workspace_id, <<>>), Out("success"))

_create_tag(confirmed, svc, api, args) ==
    CreateInWorkspace("tags.create", {"accountId", "containerId", "tagName", "tagType"},
                      "tagName", confirmed, svc, api, args)

_create_trigger(confirmed, svc, api, args) ==
    CreateInWorkspace("triggers.create",
                      {"accountId", "containerId", "triggerName", "triggerType"},
                      "triggerName", confirmed, svc, api, args)

_create_variable(confirmed, svc, api, args) ==
    CreateInWorkspace("variables.create",
                      {"accountId", "containerId", "variableName", "variableType"},
                      "variableName", confirmed, svc, api, args)

(* _create_version asking for confirmation under the publish key *)
_create_version_publish_key(confirmed, svc, api, args) ==
    IF ~confirmed THEN NeedsConfirmation("gtm_publish", Get(args, "versionName"))
    ELSE CreateInWorkspace("workspaces.create_version", {"accountId", "containerId"},
                           "versionName", confirmed, svc, api, args)

_create_version(confirmed, svc, api, args) ==
    CreateInWorkspace("workspaces.create_version", {"accountId", "containerId"},
                      "versionName", confirmed, svc, api, args)

(* _publish_version without its confirmation gate *)
_publish_version_ungated(confirmed, svc, api, args) ==
    IF Missing(args, {"accountId", "containerId", "versionId"})
    THEN Ret(H0, Out("missing_params"))
    ELSE Ret(execute(H0, svc, api, "versions.publish", "", <<>>), Out("success"))

_publish_version(confirmed, svc, api, args) ==
    IF ~confirmed THEN NeedsConfirmation("gtm_publish", Get(args, "versionId"))
    ELSE IF Missing(args, {"accountId", "containerId", "versionId"})
         THEN Ret(H0, Out("missing_params"))
    ELSE Ret(execute(H0, svc, api, "versions.publish", "", <<>>), Out("success"))

(* The triggerId of the first trigger of type "pageview", "" when none. *)
RECURSIVE FirstPageview(_)
FirstPageview(triggers) ==
    IF triggers = <<>> THEN ""
    ELSE IF Head(triggers).type = "pageview" THEN Head(triggers).triggerId
    ELSE FirstPageview(Tail(triggers))

(* _link_ga4 with the confirmation gate placed after the workspace lookup *)
_link_ga4_late_gate(confirmed, svc, api, args) ==
    IF Missing(args, {"accountId", "containerId", "measurementId"})
    THEN Ret(H0, Out("missing_params"))
    ELSE LET r  == resolve_workspace(H0, svc, api, args)
             h1 == execute(r.h, svc, api, "triggers.list", r.workspace_id, <<>>)
             h2 == IF h1.raised = "" THEN Answered(h1, api.triggers) ELSE h1
             all_pages_trigger_id == FirstPageview(api.triggers)
         IN  IF r.h.raised # "" THEN Ret(r.h, NoOutcome)
             ELSE IF ~confirmed
                  THEN [NeedsConfirmation("gtm_write", Get(args, "measurementId"))
                            EXCEPT !.log = r.h.log]
             ELSE IF h2.raised # "" THEN Ret(h2, NoOutcome)
             ELSE IF all_pages_trigger_id = "" THEN Ret(h2, Out("no_pageview_trigger"))
             ELSE Ret(execute(h2, svc, api, "tags.create", r.workspace_id,
                              <<Get(args, "measurementId"), all_pages_trigger_id>>),
                      Out("success"))

(* _link_ga4 that fires the tag on the last listed trigger *)
_link_ga4_last_trigger(confirmed, svc, api, args) ==
    IF ~confirmed THEN NeedsConfirmation("gtm_write", Get(args, "measurementId"))
    ELSE IF Missing(args, {"accountId", "containerId", "measurementId"})
         THEN Ret(H0, Out("missing_params"))
    ELSE LET r  == resolve_workspace(H0, svc, api, args)
             h1 == execute(r.h, svc, api, "triggers.list", r.workspace_id, <<>>)
             h2 == IF h1.raised = "" THEN Answered(h1, api.triggers) ELSE h1
             all_pages_trigger_id ==
                 IF FirstPageview(api.triggers) = "" THEN ""
                 ELSE api.triggers[Len(api.triggers)].triggerId
         IN  IF h2.raised # "" THEN Ret(h2, NoOutcome)
             ELSE IF all_pages_trigger_id = "" THEN Ret(h2, Out("no_pageview_trigger"))
             ELSE Ret(execute(h2, svc, api, "tags.create", r.workspace_id,
                              <<Get(args, "measurementId"), all_pages_trigger_id>>),
                      Out("success"))

_link_ga4(confirmed, svc, api, args) ==
    IF ~confirmed THEN NeedsConfirmation("gtm_write", Get(args, "measurementId"))
    ELSE IF Missing(args, {"accountId", "containerId", "measurementId"})
         THEN Ret(H0, Out("missing_params"))
    ELSE LET r  == resolve_workspace(H0, svc, api, args)
             h1 == execute(r.h, svc, api, "triggers.list", r.workspace_id, <<>>)
             h2 == IF h1.raised = "" THEN Answered(h1, api.triggers) ELSE h1
             all_pages_trigger_id == FirstPageview(api.triggers)
         IN  IF h2.raised # "" THEN Ret(h2, NoOutcome)
             ELSE IF all_pages_trigger_id = "" THEN Ret(h2, Out("no_pageview_trigger"))
             ELSE Ret(execute(h2, svc, api, "tags.create", r.workspace_id,
                              <<Get(args, "measurementId"), all_pages_trigger_id>>),
                      Out("success"))

(***************************************************************************)
(* IntegrationGoogleTagManager.called_by_model                             *)
(***************************************************************************)

(* called_by_model without its first line *)
EarlyReturn_no_help(c) ==
    IF c.has_args /\ c.args_error THEN Out("args_error") ELSE NoOutcome

(* called_by_model ignoring what sanitize_args reports *)
EarlyReturn_no_sanitize(c) ==
    IF ~c.has_args THEN Out("help") ELSE NoOutcome

(* if not model_produced_args: return HELP; if args_error: return args_error *)
EarlyReturn(c) ==
    IF ~c.has_args THEN Out("help")
    ELSE IF c.args_error THEN Out("args_error")
    ELSE NoOutcome

(* print_help = not op or "help" in op; print_status = not op or "status" in op *)
print_help(op) == op = <<>> \/ Contains(op, "help")

(* print_status without  not op *)
print_status_nonempty(op) == Contains(op, "status")

print_status(op) == op = <<>> \/ Contains(op, "status")

(* the authentication check placed before the help branch *)
Route_prompt_first(op, auth) ==
    IF print_status(op) THEN "status"
    ELSE IF ~auth THEN "prompt"
    ELSE IF print_help(op) THEN "help"
    ELSE "dispatch"

(* the authentication check left out *)
Route_no_auth_check(op, auth) ==
    IF print_status(op) THEN "status"
    ELSE IF print_help(op) THEN "help"
    ELSE "dispatch"

(* The branch called_by_model takes once _ensure_service has answered. *)
Route(op, auth) ==
    IF print_status(op) THEN "status"
    ELSE IF print_help(op) THEN "help"
    ELSE IF ~auth THEN "prompt"
    ELSE "dispatch"

(* the if/elif chain with its last branch falling through to listAccounts *)
GtmDispatch_fallthrough(c, svc, api) ==
    IF c.op \in { <<o>> : o \in GtmKnownOps \ {"listAccounts"} }
    THEN CASE c.op = <<"listContainers">>  -> _list_containers(svc, api, c.args)
           [] c.op = <<"getContainer">>    -> _get_container(svc, api, c.args)
           [] c.op = <<"createContainer">> -> _create_container(c.confirmed, svc, api, c.args)
           [] c.op = <<"listTags">>        -> _list_tags(svc, api, c.args)
           [] c.op = <<"createTag">>       -> _create_tag(c.confirmed, svc, api, c.args)
           [] c.op = <<"listTriggers">>    -> _list_triggers(svc, api, c.args)
           [] c.op = <<"createTrigger">>   -> _create_trigger(c.confirmed, svc, api, c.args)
           [] c.op = <<"listVariables">>   -> _list_variables(svc, api, c.args)
           [] c.op = <<"createVariable">>  -> _create_variable(c.confirmed, svc, api, c.args)
           [] c.op = <<"createVersion">>   -> _create_version(c.confirmed, svc, api, c.args)
           [] c.op = <<"publishVersion">>  -> _publish_version(c.confirmed, svc, api, c.args)
           [] OTHER                        -> _link_ga4(c.confirmed, svc, api, c.args)
    ELSE _list_accounts(svc, api, c.args)

(* the if/elif chain on op *)
GtmDispatch(c, svc, api) ==
    CASE c.op = <<"listAccounts">>    -> _list_accounts(svc, api, c.args)
      [] c.op = <<"listContainers">>  -> _list_containers(svc, api, c.args)
      [] c.op = <<"getContainer">>    -> _get_container(svc, api, c.args)
      [] c.op = <<"createContainer">> -> _create_container(c.confirmed, svc, api, c.args)
      [] c.op = <<"listTags">>        -> _list_tags(svc, api, c.args)
      [] c.op = <<"createTag">>       -> _create_tag(c.confirmed, svc, api, c.args)
      [] c.op = <<"listTriggers">>    -> _list_triggers(svc, api, c.args)
      [] c.op = <<"createTrigger">>   -> _create_trigger(c.confirmed, svc, api, c.args)
      [] c.op = <<"listVariables">>   -> _list_variables(svc, api, c.args)
      [] c.op = <<"createVariable">>  -> _create_variable(c.confirmed, svc, api, c.args)
      [] c.op = <<"createVersion">>   -> _create_version(c.confirmed, svc, api, c.args)
      [] c.op = <<"publishVersion">>  -> _publish_version(c.confirmed, svc, api, c.args)
      [] c.op = <<"linkGA4">>         -> _link_ga4(c.confirmed, svc, api, c.args)
      [] OTHER                        -> Ret(H0, Out("unknown_op"))

(* only 401 taken for an authentication error *)
IsAuthStatus_only401(st) == st = 401

(* except HttpError: if e.resp.status in (401, 403) *)
IsAuthStatus(st) == st \in {401, 403}

(* the cached service taken for good up to and including expires_at - 60 *)
CachedServiceValid_inclusive(tok, svc, t) ==
    svc # None /\ tok # NoToken /\ t <= tok.expires_at - ExpiryMargin

(* _ensure_service, its first line: the cached service is still good. *)
CachedServiceValid(tok, svc, t) ==
    svc # None /\ tok # NoToken /\ t < tok.expires_at - ExpiryMargin

(* _ensure_service, after the token lookup has answered with r. *)
TokenResults ==
    { [raised |-> TRUE, token |-> NoToken] }
    \cup { [raised |-> FALSE, token |-> t] : t \in {NoToken} \cup { Token(e) : e \in TokenExpiries } }

(* _ensure_service that takes the token and leaves the service as it was *)
AfterLookup_no_build(tok, svc, r) ==
    IF r.raised THEN [token_data |-> tok, service |-> svc, authenticated |-> FALSE]
    ELSE IF r.token = NoToken
         THEN [token_data |-> NoToken, service |-> svc, authenticated |-> FALSE]
    ELSE [token_data |-> r.token, service |-> svc, authenticated |-> TRUE]

AfterLookup(tok, svc, r) ==
    IF r.raised THEN [token_data |-> tok, service |-> svc, authenticated |-> FALSE]
    ELSE IF r.token = NoToken
         THEN [token_data |-> NoToken, service |-> svc, authenticated |-> FALSE]
    ELSE [token_data |-> r.token, service |-> ServiceBuilt, authenticated |-> TRUE]

NoResume == [site |-> None, status |-> 0]

(* called_by_model dropping the service when it returns an API error string *)
Finish_drops_service(p, auth, tok, svc, tr, out, rd) ==
    /\ authenticated' = [authenticated EXCEPT ![p] = auth]
    /\ token_data' = tok
    /\ service' = IF out.kind = "api_error" THEN None ELSE svc
    /\ pc' = [pc EXCEPT ![p] = "returned"]
    /\ trace' = [trace EXCEPT ![p] = tr]
    /\ outcome' = [outcome EXCEPT ![p] = out]
    /\ resume' = [resume EXCEPT ![p] = NoResume]
    /\ reauth_due' = rd

(* called_by_model returns out (or out.kind escapes as an exception). *)
Finish(p, auth, tok, svc, tr, out, rd) ==
    /\ authenticated' = [authenticated EXCEPT ![p] = auth]
    /\ token_data' = tok
    /\ service' = svc
    /\ pc' = [pc EXCEPT ![p] = "returned"]
    /\ trace' = [trace EXCEPT ![p] = tr]
    /\ outcome' = [outcome EXCEPT ![p] = out]
    /\ resume' = [resume EXCEPT ![p] = NoResume]
    /\ reauth_due' = rd

(* called_by_model awaits start_external_auth_flow at one of its three sites. *)
AwaitOAuth(p, auth, tok, svc, tr, site, st, rd) ==
    /\ authenticated' = [authenticated EXCEPT ![p] = auth]
    /\ token_data' = tok
    /\ service' = svc
    /\ pc' = [pc EXCEPT ![p] = "await_oauth"]
    /\ trace' = [trace EXCEPT ![p] = Append(tr, Event("oauth_start"))]
    /\ outcome' = outcome
    /\ resume' = [resume EXCEPT ![p] = [site |-> site, status |-> st]]
    /\ reauth_due' = rd

(* called_by_model from the answer of _ensure_service on. *)
GtmAfterEnsure(p, c, auth, tok, svc, tr, rd) ==
    LET route == Route(c.op, auth) IN
    CASE route = "status" ->
            IF ~auth THEN AwaitOAuth(p, auth, tok, svc, tr, "status", 0, rd)
            ELSE Finish(p, auth, tok, svc, tr, [Out("status") EXCEPT !.authenticated = TRUE], rd)
      [] route = "help" -> Finish(p, auth, tok, svc, tr, Out("help"), rd)
      [] route = "prompt" -> AwaitOAuth(p, auth, tok, svc, tr, "prompt", 0, rd)
      [] OTHER ->
            \E api \in ApiAnswers :
                LET h   == GtmDispatch(c, svc, api)
                    tr2 == tr \o h.log
                IN  IF h.raised = "HttpError"
                    THEN IF IsAuthStatus(h.status)
                         THEN AwaitOAuth(p, auth, NoToken, None, tr2, "recover", h.status, TRUE)
                         ELSE Finish(p, auth, tok, svc, tr2,
                                     [Out("api_error") EXCEPT !.status = h.status], rd)
                    ELSE IF h.raised = "NeedsConfirmation"
                         THEN Finish(p, auth, tok, svc, tr2, h.ret, rd)
                    ELSE IF h.raised # "" THEN Finish(p, auth, tok, svc, tr2, Out(h.raised), rd)
                    ELSE Finish(p, auth, tok, svc, tr2, h.ret, rd)

(* A tool call enters called_by_model and runs to its first suspension. *)
GtmCalledByModel(p, c) ==
    /\ pc[p] = "idle"
    /\ call' = [call EXCEPT ![p] = c]
    /\ after_clear' = [after_clear EXCEPT ![p] = reauth_due]
    /\ UNCHANGED <<now, listed_before, main_loop, install_run>>
    /\ IF EarlyReturn(c) # NoOutcome
       THEN Finish(p, FALSE, token_data, service, <<>>, EarlyReturn(c), reauth_due)
       ELSE IF CachedServiceValid(token_data, service, now)
            THEN GtmAfterEnsure(p, c, TRUE, token_data, service, <<>>, reauth_due)
            ELSE /\ pc' = [pc EXCEPT ![p] = "await_token"]
                 /\ trace' = [trace EXCEPT ![p] = << Event("token_lookup") >>]
                 /\ reauth_due' = FALSE
                 /\ UNCHANGED <<token_data, service, authenticated, outcome, resume>>

(* get_external_auth_token answers; _ensure_service and the call go on. *)
TokenLookupReturns(p, r) ==
    /\ pc[p] = "await_token"
    /\ UNCHANGED <<call, after_clear, now, listed_before, main_loop, install_run>>
    /\ LET a == AfterLookup(token_data, service, r)
           answered == [Event("token_lookup") EXCEPT
                           !.status = IF r.raised THEN 500 ELSE 200,
                           !.body = IF r.token = NoToken THEN <<>> ELSE <<"token">>]
       IN  GtmAfterEnsure(p, call[p], a.authenticated, a.token_data, a.service,
                          [trace[p] EXCEPT ![Len(trace[p])] = answered], reauth_due)

(* start_external_auth_flow answers: a URL, or TransportQueryError. *)
OAuthResults == {"url", "TransportQueryError"}

OAuthOutcome(rs, r) ==
    CASE rs.site = "status" ->
            IF r = "url" THEN [Out("status") EXCEPT !.url = AuthUrl]
            ELSE [Out("status") EXCEPT !.oauth_error = TRUE]
      [] rs.site = "prompt" ->
            IF r = "url" THEN [Out("auth_prompt") EXCEPT !.url = AuthUrl]
            ELSE Out("oauth_failed")
      [] OTHER ->
            IF r = "url" THEN [Out("auth_error") EXCEPT !.url = AuthUrl, !.status = rs.status]
            ELSE Out("TransportQueryError")

OAuthFlowReturns(p, r) ==
    /\ pc[p] = "await_oauth"
    /\ UNCHANGED <<call, after_clear, now, listed_before, main_loop, install_run>>
    /\ LET answered == [Event("oauth_start") EXCEPT
                           !.status = IF r = "url" THEN 200 ELSE 500]
       IN  Finish(p, authenticated[p], token_data, service,
                  [trace[p] EXCEPT ![Len(trace[p])] = answered],
                  OAuthOutcome(resume[p], r), reauth_due)

(* The workspace id a finished call took from its workspace listing, else before. *)
FirstListed(tr, before) ==
    LET l == { i \in 1..Len(tr) : /\ tr[i].kind = "api" /\ tr[i].ep = "workspaces.list"
                                  /\ tr[i].status = 200 /\ tr[i].body # <<>> }
    IN  IF l = {} THEN before ELSE tr[CHOOSE i \in l : TRUE].body[1]

(* The host framework takes the response; the call is over. *)
Return(p) ==
    /\ pc[p] = "returned"
    /\ pc' = [pc EXCEPT ![p] = "idle"]
    /\ call' = [call EXCEPT ![p] = NoCall]
    /\ trace' = [trace EXCEPT ![p] = <<>>]
    /\ outcome' = [outcome EXCEPT ![p] = NoOutcome]
    /\ after_clear' = [after_clear EXCEPT ![p] = FALSE]
    /\ authenticated' = [authenticated EXCEPT ![p] = FALSE]
    /\ listed_before' = FirstListed(trace[p], listed_before)
    /\ UNCHANGED <<token_data, service, now, resume, reauth_due, main_loop, install_run>>

(* time.time() moves on. *)
Tick ==
    /\ now + TickStep <= MaxTime
    /\ now' = now + TickStep
    /\ UNCHANGED <<token_data, service, pc, call, authenticated, trace, resume,
                   outcome, reauth_due, after_clear, listed_before, main_loop, install_run>>

(***************************************************************************)
(* IntegrationGoogleAnalyticsEnhanced.  The base GA4 integration is an     *)
(* external collaborator: _ensure_services answers yes or no, _get_report  *)
(* returns a report or raises, called_by_model returns some response.      *)
(***************************************************************************)
GaKnownOps == {"getEventConfig", "listEvents", "getEventReport", "getConversions",
               "getEcommerceReport", "getUserJourney", "getFunnelReport", "customQuery"}

GaOps == { <<o>> : o \in GaKnownOps } \cup OddOps

GaOpKeys(o) ==
    CASE o = "getEventConfig"     -> {"propertyId", "eventName"}
      [] o = "listEvents"         -> {"propertyId", "dateRange"}
      [] o = "getEventReport"     -> {"propertyId", "eventName", "dateRange", "metrics", "dimensions"}
      [] o = "getConversions"     -> {"propertyId", "dateRange", "dimensions"}
      [] o = "getEcommerceReport" -> {"propertyId", "dateRange", "dimensions"}
      [] o = "getUserJourney"     -> {"propertyId", "startPage", "endPage", "dateRange"}
      [] o = "getFunnelReport"    -> {"propertyId", "funnelSteps", "dateRange"}
      [] o = "customQuery"        -> {"propertyId", "dateRange", "metrics", "dimensions",
                                      "orderBy", "limit", "startDate", "endDate", "filters"}
      [] OTHER                    -> {}

GaArgSets(op) == IF Len(op) = 1 THEN ArgSets(GaOpKeys(op[1])) ELSE { {} }

(* funnelSteps: a step is a dict with or without a name, or not a dict. *)
MaxSteps == 2
Step(has_name, name, page) ==
    [is_dict |-> TRUE, has_name |-> has_name, name |-> name, page |-> page]
BadStep == [is_dict |-> FALSE, has_name |-> FALSE, name |-> "", page |-> ""]
StepValues == { Step(TRUE, "Home", "/"), Step(FALSE, "", "/cart"), BadStep }
RECURSIVE StepLists(_)
StepLists(n) ==
    IF n = 0 THEN { <<>> }
    ELSE StepLists(n - 1)
         \cup { Append(l, v) : l \in { x \in StepLists(n - 1) : Len(x) = n - 1 }, v \in StepValues }
FunnelInputs == StepLists(MaxSteps) \ { <<>> }

StepsFor(op, a) ==
    IF op = <<"getFunnelReport">> /\ "funnelSteps" \in a THEN FunnelInputs ELSE { <<>> }

(* The dates of customQuery may also come as empty strings. *)
DateKeys == {"startDate", "endDate"}

EmptyFor(op, a) ==
    IF op = <<"customQuery">> THEN SUBSET (DateKeys \ a) ELSE { {} }

GaCalls ==
    UNION { UNION { { [tool |-> GA, has_args |-> TRUE, op |-> op, args |-> a, empty |-> em,
                       args_error |-> e, confirmed |-> FALSE, steps |-> st] :
                         e \in BOOLEAN, st \in StepsFor(op, a), em \in EmptyFor(op, a) }
                    : a \in GaArgSets(op) }
            : op \in GaOps }
    \cup { [NoCall EXCEPT !.tool = GA] }

(* What the base integration answers during one call. *)
BaseReplies == {"base_prompt", "base_status"}

(* The reports answer only an authenticated base; its called_by_model is   *)
(* reached only when it is not.                                            *)
GaAnswers ==
    { [authenticated |-> TRUE, fail_at |-> k, event_found |-> f, base_reply |-> "base_status"] :
          k \in 0..MaxSteps, f \in BOOLEAN }
    \cup
    { [authenticated |-> FALSE, fail_at |-> k, event_found |-> FALSE, base_reply |-> b] :
          k \in 0..1, b \in BaseReplies }

BaseArgs(property_id, date_range, metrics, dimensions, order_by, limit) ==
    [propertyId |-> property_id, dateRange |-> date_range, metrics |-> metrics,
     dimensions |-> dimensions, orderBy |-> order_by, limit |-> limit,
     startDate |-> "", endDate |-> ""]

(* await self.base._get_report(base_args) *)
_get_report(h, env, base_args) ==
    IF h.raised # "" THEN h
    ELSE LET ok == Len(h.log) + 1 # env.fail_at
         IN  [log |-> Append(h.log, [kind |-> "report", ep |-> "_get_report", ws |-> "",
                                     status |-> IF ok THEN 200 ELSE 500,
                                     body |-> base_args]),
              raised |-> IF ok THEN "" ELSE "Exception",
              status |-> 0]

_get_event_config(env, args) ==
    IF Missing(args, {"propertyId", "eventName"}) THEN Ret(H0, Out("missing_params"))
    ELSE Ret(_get_report(H0, env, BaseArgs(Get(args, "propertyId"), "last7days",
                                           <<"eventCount">>, <<"eventName">>, <<>>, <<>>)),
             IF env.event_found THEN Out("event_tracked") ELSE Out("event_not_found"))

_list_events(env, args) ==
    IF Missing(args, {"propertyId"}) THEN Ret(H0, Out("missing_params"))
    ELSE Ret(_get_report(H0, env,
                 BaseArgs(Get(args, "propertyId"), GetOr(args, "dateRange", "last7days"),
                          <<"eventCount", "eventValue">>, <<"eventName">>,
                          <<"eventCount", "desc">>, <<50>>)),
             Out("report"))

_get_event_report(env, args) ==
    IF Missing(args, {"propertyId"}) THEN Ret(H0, Out("missing_params"))
    ELSE Ret(_get_report(H0, env,
                 BaseArgs(Get(args, "propertyId"), GetOr(args, "dateRange", "last30days"),
                          GetOr(args, "metrics", <<"eventCount", "eventValue">>),
                          GetOr(args, "dimensions", <<"date", "eventName">>),
                          <<"eventCount", "desc">>, <<>>)),
             Out("report"))

(* _get_conversions that ignores the caller's dimensions *)
_get_conversions_fixed_dimensions(env, args) ==
    IF Missing(args, {"propertyId"}) THEN Ret(H0, Out("missing_params"))
    ELSE Ret(_get_report(H0, env,
                 BaseArgs(Get(args, "propertyId"), GetOr(args, "dateRange", "last30days"),
                          <<"conversions", "totalRevenue", "sessions">>,
                          <<"sessionSource", "sessionMedium">>,
                          <<"conversions", "desc">>, <<20>>)),
             Out("report"))

_get_conversions(env, args) ==
    IF Missing(args, {"propertyId"}) THEN Ret(H0, Out("missing_params"))
    ELSE Ret(_get_report(H0, env,
                 BaseArgs(Get(args, "propertyId"), GetOr(args, "dateRange", "last30days"),
                          <<"conversions", "totalRevenue", "sessions">>,
                          GetOr(args, "dimensions", <<"sessionSource", "sessionMedium">>),
                          <<"conversions", "desc">>, <<20>>)),
             Out("report"))

_get_ecommerce_report(env, args) ==
    IF Missing(args, {"propertyId"}) THEN Ret(H0, Out("missing_params"))
    ELSE Ret(_get_report(H0, env,
                 BaseArgs(Get(args, "propertyId"), GetOr(args, "dateRange", "last30days"),
                          <<"itemRevenue", "itemsPurchased", "itemsViewed">>,
                          GetOr(args, "dimensions", <<"itemName", "itemCategory">>),
                          <<"itemRevenue", "desc">>, <<30>>)),
             Out("report"))

_get_user_journey(env, args) ==
    IF Missing(args, {"propertyId"}) THEN Ret(H0, Out("missing_params"))
    ELSE Ret(_get_report(H0, env,
                 BaseArgs(Get(args, "propertyId"), GetOr(args, "dateRange", "last7days"),
                          <<"screenPageViews", "sessions">>, <<"pagePath", "pageTitle">>,
                          <<"screenPageViews", "desc">>, <<100>>)),
             Out("journey"))

(* the loop of _get_funnel_report over funnel_steps[i..], h its state so far *)
RECURSIVE FunnelLoop(_, _, _, _, _, _)
FunnelLoop(h, lines, steps, i, env, args) ==
    IF i > Len(steps) \/ h.raised # "" THEN [h |-> h, lines |-> lines]
    ELSE IF ~steps[i].is_dict
         THEN [h |-> [h EXCEPT !.raised = "AttributeError"], lines |-> lines]
    ELSE LET step_name == IF steps[i].has_name THEN steps[i].name ELSE <<"Step", i>>
             h1 == _get_report(h, env,
                       BaseArgs(Get(args, "propertyId"), GetOr(args, "dateRange", "last30days"),
                                <<"screenPageViews", "sessions">>, <<"pagePath">>, <<>>, <<>>))
         IN  IF h1.raised # "" THEN [h |-> h1, lines |-> lines]
             ELSE FunnelLoop(h1, Append(lines, <<i, step_name, steps[i].page>>),
                             steps, i + 1, env, args)

(* _get_funnel_report with its loop starting at the second step *)
_get_funnel_report_skip_first(env, args, steps) ==
    IF Missing(args, {"propertyId", "funnelSteps"}) \/ steps = <<>>
    THEN Ret(H0, Out("missing_params"))
    ELSE LET r == FunnelLoop(H0, <<>>, steps, 2, env, args)
         IN  Ret(r.h, [Out("funnel") EXCEPT !.lines = Append(r.lines, <<"disclaimer">>)])

_get_funnel_report(env, args, steps) ==
    IF Missing(args, {"propertyId", "funnelSteps"}) \/ steps = <<>>
    THEN Ret(H0, Out("missing_params"))
    ELSE LET r == FunnelLoop(H0, <<>>, steps, 1, env, args)
         IN  Ret(r.h, [Out("funnel") EXCEPT !.lines = Append(r.lines, <<"disclaimer">>)])

(* args.get(k) of a key given with a value or with "" *)
Truthy(args, empty, k) == k \in args /\ k \notin empty

(* _custom_query testing  "startDate" in args and "endDate" in args *)
_custom_query_key_presence(env, args, empty) ==
    IF Missing(args, {"propertyId"}) THEN Ret(H0, Out("missing_params"))
    ELSE LET b == BaseArgs(Get(args, "propertyId"), GetOr(args, "dateRange", "last30days"),
                           GetOr(args, "metrics", <<"sessions">>),
                           GetOr(args, "dimensions", <<>>),
                           GetOr(args, "orderBy", <<>>), GetOr(args, "limit", <<100>>))
             base_args == IF DateKeys \subseteq (args \cup empty)
                          THEN [b EXCEPT !.startDate = Get(args, "startDate"),
                                         !.endDate = Get(args, "endDate"),
                                         !.dateRange = "custom"]
                          ELSE b
         IN  Ret(_get_report(H0, env, base_args),
                 [Out("report") EXCEPT !.lines =
                     IF "filters" \in args THEN << <<"filters_note", Get(args, "filters")>> >>
                     ELSE <<>>])

_custom_query(env, args, empty) ==
    IF Missing(args, {"propertyId"}) THEN Ret(H0, Out("missing_params"))
    ELSE LET b == BaseArgs(Get(args, "propertyId"), GetOr(args, "dateRange", "last30days"),
                           GetOr(args, "metrics", <<"sessions">>),
                           GetOr(args, "dimensions", <<>>),
                           GetOr(args, "orderBy", <<>>), GetOr(args, "limit", <<100>>))
             base_args == IF Truthy(args, empty, "startDate") /\ Truthy(args, empty, "endDate")
                          THEN [b EXCEPT !.startDate = Get(args, "startDate"),
                                         !.endDate = Get(args, "endDate"),
                                         !.dateRange = "custom"]
                          ELSE b
         IN  Ret(_get_report(H0, env, base_args),
                 [Out("report") EXCEPT !.lines =
                     IF "filters" \in args THEN << <<"filters_note", Get(args, "filters")>> >>
                     ELSE <<>>])

GaDispatch(c, env) ==
    CASE c.op = <<"getEventConfig">>     -> _get_event_config(env, c.args)
      [] c.op = <<"listEvents">>         -> _list_events(env, c.args)
      [] c.op = <<"getEventReport">>     -> _get_event_report(env, c.args)
      [] c.op = <<"getConversions">>     -> _get_conversions(env, c.args)
      [] c.op = <<"getEcommerceReport">> -> _get_ecommerce_report(env, c.args)
      [] c.op = <<"getUserJourney">>     -> _get_user_journey(env, c.args)
      [] c.op = <<"getFunnelReport">>    -> _get_funnel_report(env, c.args, c.steps)
      [] c.op = <<"customQuery">>        -> _custom_query(env, c.args, c.empty)
      [] OTHER                           -> Ret(H0, Out("unknown_op"))

(* return await self.base.called_by_model(toolcall, model_produced_args) *)
BaseCalledByModel(tr, c, env) ==
    [trace |-> Append(tr, [Event("base_called_by_model") EXCEPT
                              !.body = [op |-> c.op, args |-> c.args, empty |-> c.empty,
                                        steps |-> c.steps,
                                        confirmed |-> c.confirmed,
                                        reply |-> env.base_reply]]),
     out |-> [Out("base_response") EXCEPT !.subject = env.base_reply]]

(* the status branch keeping its own text when the base is unauthenticated *)
GaCalledByModelResult_own_status(c, env) ==
    IF EarlyReturn(c) # NoOutcome THEN [trace |-> <<>>, out |-> EarlyReturn(c)]
    ELSE LET tr == << Event("ensure_services") >>
             route == Route(c.op, env.authenticated)
         IN  CASE route = "status" ->
                    [trace |-> tr,
                     out |-> [Out("status") EXCEPT !.authenticated = env.authenticated]]
               [] route = "help" -> [trace |-> tr, out |-> Out("help")]
               [] route = "prompt" -> BaseCalledByModel(tr, c, env)
               [] OTHER ->
                    LET h == GaDispatch(c, env)
                    IN  [trace |-> tr \o h.log,
                         out |-> IF h.raised # "" THEN Out("error") ELSE h.ret]

(* called_by_model of the GA4 adapter without its except clause *)
GaCalledByModelResult_uncaught(c, env) ==
    IF EarlyReturn(c) # NoOutcome THEN [trace |-> <<>>, out |-> EarlyReturn(c)]
    ELSE LET tr == << Event("ensure_services") >>
             route == Route(c.op, env.authenticated)
         IN  CASE route = "status" ->
                    IF ~env.authenticated
                    THEN BaseCalledByModel(tr, c, env)
                    ELSE [trace |-> tr, out |-> [Out("status") EXCEPT !.authenticated = TRUE]]
               [] route = "help" -> [trace |-> tr, out |-> Out("help")]
               [] route = "prompt" -> BaseCalledByModel(tr, c, env)
               [] OTHER ->
                    LET h == GaDispatch(c, env)
                    IN  [trace |-> tr \o h.log,
                         out |-> IF h.raised # "" THEN Out(h.raised) ELSE h.ret]

(* called_by_model of the GA4 adapter: the response and the calls made on base. *)
GaCalledByModelResult(c, env) ==
    IF EarlyReturn(c) # NoOutcome THEN [trace |-> <<>>, out |-> EarlyReturn(c)]
    ELSE LET tr == << Event("ensure_services") >>
             route == Route(c.op, env.authenticated)
         IN  CASE route = "status" ->
                    IF ~env.authenticated
                    THEN BaseCalledByModel(tr, c, env)
                    ELSE [trace |-> tr, out |-> [Out("status") EXCEPT !.authenticated = TRUE]]
               [] route = "help" -> [trace |-> tr, out |-> Out("help")]
               [] route = "prompt" -> BaseCalledByModel(tr, c, env)
               [] OTHER ->
                    LET h == GaDispatch(c, env)
                    IN  [trace |-> tr \o h.log,
                         out |-> IF h.raised # "" THEN Out("error") ELSE h.ret]

GaCalledByModel(p, c, env) ==
    /\ pc[p] = "idle"
    /\ call' = [call EXCEPT ![p] = c]
    /\ after_clear' = [after_clear EXCEPT ![p] = FALSE]
    /\ UNCHANGED <<now, listed_before, main_loop, install_run>>
    /\ LET r == GaCalledByModelResult(c, env)
       IN  Finish(p, env.authenticated /\ EarlyReturn(c) = NoOutcome,
                  token_data, service, r.trace, r.out, reauth_due)

(***************************************************************************)
(* metricmaster_main_loop, from its  try  on: the while loop over           *)
(* unpark_collected_events and the finally clause.  The events, the         *)
(* shutdown event and the background tasks belong to flexus_client_kit:     *)
(* events are collected and tasks end whenever they do, unpark processes    *)
(* collected events (a processed event may leave a background task) and     *)
(* returns or raises, wait_for_bg_tasks returns once no task is left.       *)
(***************************************************************************)
MaxEvents == 3         \* events collected during one run of the loop

LoopEntered == [pc |-> "while", shutdown_event |-> FALSE, collected |-> 0, arrived |-> 0,
                bg_tasks |-> 0, raised |-> FALSE, waited |-> FALSE]

(* an event reaches the bot *)
EventCollected ==
    /\ main_loop.arrived < MaxEvents
    /\ main_loop' = [main_loop EXCEPT !.collected = @ + 1, !.arrived = @ + 1]
    /\ UNCHANGED <<toolvars, install_run>>

(* ckit_shutdown.shutdown_event.set() *)
ShutdownSet ==
    /\ ~main_loop.shutdown_event
    /\ main_loop' = [main_loop EXCEPT !.shutdown_event = TRUE]
    /\ UNCHANGED <<toolvars, install_run>>

BgTaskEnds ==
    /\ main_loop.bg_tasks > 0
    /\ main_loop' = [main_loop EXCEPT !.bg_tasks = @ - 1]
    /\ UNCHANGED <<toolvars, install_run>>

(* while not ckit_shutdown.shutdown_event.is_set(): *)
WhileTest ==
    /\ main_loop.pc = "while"
    /\ main_loop' = [main_loop EXCEPT !.pc =
                        IF main_loop.shutdown_event THEN "finally" ELSE "unpark"]
    /\ UNCHANGED <<toolvars, install_run>>

(* await rcx.unpark_collected_events(sleep_if_no_work=10.0) returns, k      *)
(* events processed, spawned tasks left running                             *)
UnparkReturns(k, spawned) ==
    /\ main_loop.pc = "unpark"
    /\ k <= main_loop.collected /\ spawned <= k
    /\ main_loop' = [main_loop EXCEPT !.pc = "while", !.collected = @ - k,
                                      !.bg_tasks = @ + spawned]
    /\ UNCHANGED <<toolvars, install_run>>

(* an exception of event processing leaving the function past the finally *)
UnparkRaises_no_finally(k, spawned) ==
    /\ main_loop.pc = "unpark"
    /\ k <= main_loop.collected /\ spawned <= k
    /\ main_loop' = [main_loop EXCEPT !.pc = "exit", !.raised = TRUE,
                                      !.collected = @ - k, !.bg_tasks = @ + spawned]
    /\ UNCHANGED <<toolvars, install_run>>

(* ... or raises: control goes to the finally clause *)
UnparkRaises(k, spawned) ==
    /\ main_loop.pc = "unpark"
    /\ k <= main_loop.collected /\ spawned <= k
    /\ main_loop' = [main_loop EXCEPT !.pc = "finally", !.raised = TRUE,
                                      !.collected = @ - k, !.bg_tasks = @ + spawned]
    /\ UNCHANGED <<toolvars, install_run>>

(* finally: await rcx.wait_for_bg_tasks() is called *)
Finally ==
    /\ main_loop.pc = "finally"
    /\ main_loop' = [main_loop EXCEPT !.pc = "wait_for_bg_tasks"]
    /\ UNCHANGED <<toolvars, install_run>>

(* wait_for_bg_tasks returns; the exit is logged and the function returns,  *)
(* or the pending exception goes on to the caller                           *)
WaitReturns ==
    /\ main_loop.pc = "wait_for_bg_tasks"
    /\ main_loop.bg_tasks = 0
    /\ main_loop' = [main_loop EXCEPT !.pc = "exit", !.waited = TRUE]
    /\ UNCHANGED <<toolvars, install_run>>

UnparkEnds ==
    \E k \in 0..MaxEvents, spawned \in 0..MaxEvents :
        UnparkReturns(k, spawned) \/ UnparkRaises(k, spawned)

(***************************************************************************)
(* metricmaster_install.install.  A picture file is absent or holds some    *)
(* bytes; logger is a module global that only the  __main__  block binds.   *)
(***************************************************************************)
MaxFileLen == 2        \* bytes of a picture file
Bytes == {0, 255}
Absent == [exists |-> FALSE, bytes |-> <<>>]

RECURSIVE ByteSeqs(_)
ByteSeqs(n) ==
    IF n = 0 THEN { <<>> }
    ELSE ByteSeqs(n - 1)
         \cup { Append(f, b) : f \in { x \in ByteSeqs(n - 1) : Len(x) = n - 1 }, b \in Bytes }

PictureFiles == { [exists |-> TRUE, bytes |-> f] : f \in ByteSeqs(MaxFileLen) } \cup {Absent}

B64Alphabet ==
    << "A", "B", "C", "D", "E", "F", "G", "H", "I", "J", "K", "L", "M", "N", "O", "P",
       "Q", "R", "S", "T", "U", "V", "W", "X", "Y", "Z", "a", "b", "c", "d", "e", "f",
       "g", "h", "i", "j", "k", "l", "m", "n", "o", "p", "q", "r", "s", "t", "u", "v",
       "w", "x", "y", "z", "0", "1", "2", "3", "4", "5", "6", "7", "8", "9", "+", "/" >>

B64Char(n) == B64Alphabet[n + 1]

(* base64.b64encode(data).decode("ascii") *)
RECURSIVE b64encode(_)
b64encode(data) ==
    IF Len(data) = 0 THEN <<>>
    ELSE IF Len(data) = 1
         THEN << B64Char(data[1] \div 4), B64Char((data[1] % 4) * 16), "=", "=" >>
    ELSE IF Len(data) = 2
         THEN << B64Char(data[1] \div 4),
                 B64Char((data[1] % 4) * 16 + data[2] \div 16),
                 B64Char((data[2] % 16) * 4), "=" >>
    ELSE << B64Char(data[1] \div 4),
            B64Char((data[1] % 4) * 16 + data[2] \div 16),
            B64Char((data[2] % 16) * 4 + data[3] \div 64),
            B64Char(data[3] % 64) >>
         \o b64encode(SubSeq(data, 4, Len(data)))

(* How install is entered: through run_bots_in_this_group, which gets it as *)
(* install_func from the imported module, or by running the module itself.  *)
Invocations == {"install_func", "script"}

(* logger is bound by lines 204-205, which run only when the module is      *)
(* __main__                                                                 *)
logger_bound(invoked_as) == invoked_as = "script"

NotRun == [invoked_as |-> "", big |-> Absent, small |-> Absent, upsert |-> FALSE,
           pic_big |-> <<>>, pic_small |-> <<>>, raised |-> ""]

(* install(): the two pictures, then marketplace_upsert_dev_bot *)
install(invoked_as, big, small) ==
    LET run == [NotRun EXCEPT !.invoked_as = invoked_as, !.big = big, !.small = small]
        pic_big == IF big.exists THEN b64encode(big.bytes) ELSE <<>>
        pic_small == IF small.exists THEN b64encode(small.bytes) ELSE <<>>
    IN  IF ~big.exists /\ ~logger_bound(invoked_as)
        THEN [run EXCEPT !.raised = "NameError"]
        ELSE IF ~small.exists /\ ~logger_bound(invoked_as)
        THEN [run EXCEPT !.pic_big = pic_big, !.raised = "NameError"]
        ELSE [run EXCEPT !.pic_big = pic_big, !.pic_small = pic_small, !.upsert = TRUE]

Install(invoked_as, big, small) ==
    /\ install_run = NotRun
    /\ install_run' = install(invoked_as, big, small)
    /\ UNCHANGED <<toolvars, main_loop>>

Init ==
    /\ token_data = NoToken
    /\ service = None
    /\ now = 0
    /\ pc = [p \in Procs |-> "idle"]
    /\ call = [p \in Procs |-> NoCall]
    /\ authenticated = [p \in Procs |-> FALSE]
    /\ trace = [p \in Procs |-> <<>>]
    /\ resume = [p \in Procs |-> NoResume]
    /\ outcome = [p \in Procs |-> NoOutcome]
    /\ reauth_due = FALSE
    /\ after_clear = [p \in Procs |-> FALSE]
    /\ listed_before = ""
    /\ main_loop = LoopEntered
    /\ install_run = NotRun

(***************************************************************************)
(* metricmaster_bot: the advertised tools and the tool-call handlers.      *)
(***************************************************************************)

(* TOOLS, by tool name *)
TOOLS == << "google_analytics", GA, GTM, "mongo_store", "flexus_policy_document",
            "ask_questions" >>

ToolNames == { TOOLS[i] : i \in 1..Len(TOOLS) }

(* the handlers with a registration left out and another made twice *)
on_tool_call_uneven ==
    << [name |-> "google_analytics", target |-> "ga_integration"],
       [name |-> GA, target |-> "ga_enhanced_integration"],
       [name |-> GTM, target |-> "gtm_integration"],
       [name |-> "mongo_store", target |-> "handle_mongo_store"],
       [name |-> "flexus_policy_document", target |-> "pdoc_integration"],
       [name |-> "flexus_policy_document", target |-> "handle_ask_questions"] >>

(* @rcx.on_tool_call(<tool>.name): the handlers the main loop registers,   *)
(* each with what it calls.                                                *)
on_tool_call ==
    << [name |-> "google_analytics", target |-> "ga_integration"],
       [name |-> GA, target |-> "ga_enhanced_integration"],
       [name |-> GTM, target |-> "gtm_integration"],
       [name |-> "mongo_store", target |-> "handle_mongo_store"],
       [name |-> "flexus_policy_document", target |-> "pdoc_integration"],
       [name |-> "ask_questions", target |-> "handle_ask_questions"] >>

(* What the handlers registered for a tool name call. *)
HandlersFor(name) ==
    { on_tool_call[i].target : i \in { j \in 1..Len(on_tool_call) : on_tool_call[j].name = name } }

(* The host framework processes one tool call at a time. *)
NoCallInFlight == \A q \in Procs : pc[q] = "idle"

(* A call of an advertised tool goes to a handler registered for its name. *)
Routed(name, target) == NoCallInFlight /\ name \in ToolNames /\ target \in HandlersFor(name)

GtmToolCall(p, c) == Routed(c.tool, "gtm_integration") /\ GtmCalledByModel(p, c)
GaToolCall(p, c, env) == Routed(c.tool, "ga_enhanced_integration") /\ GaCalledByModel(p, c, env)

(* A call handled by one of the integrations of flexus_client_kit: it      *)
(* returns some response and touches nothing of the two adapters.          *)
ExternalToolCall(p, name, target) ==
    /\ Routed(name, target)
    /\ target \notin {"gtm_integration", "ga_enhanced_integration"}
    /\ pc[p] = "idle"
    /\ call' = [call EXCEPT ![p] = [NoCall EXCEPT !.tool = name, !.has_args = TRUE]]
    /\ after_clear' = [after_clear EXCEPT ![p] = FALSE]
    /\ UNCHANGED <<now, listed_before, main_loop, install_run>>
    /\ Finish(p, FALSE, token_data, service, <<>>,
              [Out("external_response") EXCEPT !.subject = target], reauth_due)

Next ==
    \/ \E p \in Procs, c \in GtmCalls : GtmToolCall(p, c)
    \/ \E p \in Procs, c \in GaCalls, env \in GaAnswers : GaToolCall(p, c, env)
    \/ \E p \in Procs, name \in ToolNames :
          \E target \in HandlersFor(name) : ExternalToolCall(p, name, target)
    \/ \E p \in Procs, r \in TokenResults : TokenLookupReturns(p, r)
    \/ \E p \in Procs, r \in OAuthResults : OAuthFlowReturns(p, r)
    \/ \E p \in Procs : Return(p)
    \/ Tick

Spec == Init /\ [][Next]_vars

(***************************************************************************)
(* Two calls on one GTM integration instance, not serialized by the host:  *)
(* a call may enter called_by_model while the other is suspended at its    *)
(* token lookup or at its OAuth flow start.                                *)
(***************************************************************************)
TwoCalls == {1, 2}

(* The calls the two make: a read operation with its required argument,    *)
(* and the status request.                                                 *)
InterleavedCalls ==
    { c \in GtmCalls :
        /\ c.op \in { <<"listContainers">>, <<"status">> }
        /\ ~c.args_error /\ ~c.confirmed
        /\ c.op # <<"status">> => GtmRequired(c.op[1]) \subseteq c.args }

InterleavedInit ==
    /\ token_data = NoToken
    /\ service = None
    /\ now = 0
    /\ pc = [p \in TwoCalls |-> "idle"]
    /\ call = [p \in TwoCalls |-> NoCall]
    /\ authenticated = [p \in TwoCalls |-> FALSE]
    /\ trace = [p \in TwoCalls |-> <<>>]
    /\ resume = [p \in TwoCalls |-> NoResume]
    /\ outcome = [p \in TwoCalls |-> NoOutcome]
    /\ reauth_due = FALSE
    /\ after_clear = [p \in TwoCalls |-> FALSE]
    /\ listed_before = ""
    /\ main_loop = LoopEntered
    /\ install_run = NotRun

(* A call enters called_by_model whatever the other call is doing. *)
InterleavedToolCall(p, c) ==
    /\ c.tool \in ToolNames /\ "gtm_integration" \in HandlersFor(c.tool)
    /\ GtmCalledByModel(p, c)

InterleavedNext ==
    \/ \E p \in TwoCalls, c \in InterleavedCalls : InterleavedToolCall(p, c)
    \/ \E p \in TwoCalls, r \in TokenResults : TokenLookupReturns(p, r)
    \/ \E p \in TwoCalls, r \in OAuthResults : OAuthFlowReturns(p, r)
    \/ \E p \in TwoCalls : Return(p)
    \/ Tick

InterleavedSpec == InterleavedInit /\ [][InterleavedNext]_vars


(***************************************************************************)
(* The bot around the adapters: the main loop under the scheduling of       *)
(* asyncio (a step that can be taken is taken; an await on the framework    *)
(* ends), and the install run.                                              *)
(***************************************************************************)
MainLoopNext ==
    \/ EventCollected
    \/ ShutdownSet
    \/ BgTaskEnds
    \/ WhileTest
    \/ \E k \in 0..MaxEvents, spawned \in 0..MaxEvents : UnparkReturns(k, spawned)
    \/ \E k \in 0..MaxEvents, spawned \in 0..MaxEvents : UnparkRaises(k, spawned)
    \/ Finally
    \/ WaitReturns

MainLoopSpec ==
    /\ Init /\ [][MainLoopNext]_vars
    /\ WF_vars(WhileTest) /\ WF_vars(UnparkEnds) /\ WF_vars(Finally)
    /\ WF_vars(WaitReturns) /\ WF_vars(BgTaskEnds)

InstallNext ==
    \E invoked_as \in Invocations, big \in PictureFiles, small \in PictureFiles :
        Install(invoked_as, big, small)

InstallSpec == Init /\ [][InstallNext]_vars

(***************************************************************************)
(* Properties.                                                             *)
(***************************************************************************)
Returned(p) == pc[p] = "returned"

(* The call got past the argument checks, to _ensure_service. *)
Dispatched(c) == c.has_args /\ ~c.args_error

ApiIdx(tr) == { i \in 1..Len(tr) : tr[i].kind = "api" }
KindIdx(tr, kind) == { i \in 1..Len(tr) : tr[i].kind = kind }

MutatingCall(c) == c.tool = GTM /\ c.op \in { <<o>> : o \in GtmMutatingOps }

(* C1: over any sequence of GTM tool calls, a mutating API request          *)
(* (containers.create, tags.create, triggers.create, variables.create,      *)
(* workspaces.create_version, versions.publish) is issued only during a     *)
(* tool call whose confirmed_by_human flag is set.                          *)
C1_MutationOnlyWhenConfirmed ==
    \A p \in Procs : \A i \in ApiIdx(trace[p]) :
        trace[p][i].ep \in MutatingEndpoints => call[p].confirmed

(* A confirmed linkGA4 has created its tag. *)
C1_Witness ==
    \E p \in Procs :
        /\ Returned(p) /\ call[p].op = <<"linkGA4">> /\ call[p].confirmed
        /\ outcome[p].kind = "success"
        /\ \E i \in ApiIdx(trace[p]) : trace[p][i].ep = "tags.create"

(* C2 as stated: a mutating operation called without confirmation ends in   *)
(* a confirmation request and no invocation of the API client, whatever the *)
(* arguments and the authentication state.                                  *)
C2_Original ==
    \A p \in Procs :
        (Returned(p) /\ MutatingCall(call[p]) /\ Dispatched(call[p]) /\ ~call[p].confirmed)
            => (outcome[p].kind = "NeedsConfirmation" /\ ApiIdx(trace[p]) = {})

(* C2 amended: a mutating operation called without confirmation never       *)
(* invokes the API client; it ends in a confirmation request exactly when   *)
(* the adapter is authenticated, and in the authorization prompt (or the    *)
(* OAuth failure string) when it is not.                                    *)
C2_UnconfirmedMutationMakesNoApiCall ==
    \A p \in Procs :
        (MutatingCall(call[p]) /\ ~call[p].confirmed) =>
            /\ ApiIdx(trace[p]) = {}
            /\ (Returned(p) /\ Dispatched(call[p])) =>
                  /\ authenticated[p] => outcome[p].kind = "NeedsConfirmation"
                  /\ ~authenticated[p] => outcome[p].kind \in {"auth_prompt", "oauth_failed"}

(* An unconfirmed createTag on an authenticated adapter asked for confirmation. *)
C2_Witness ==
    \E p \in Procs :
        /\ Returned(p) /\ call[p].op = <<"createTag">> /\ ~call[p].confirmed
        /\ authenticated[p] /\ outcome[p].kind = "NeedsConfirmation"
        /\ outcome[p].key = "gtm_write"

NoTokenAnswered(tr) ==
    \E i \in KindIdx(tr, "token_lookup") : tr[i].status = 200 /\ tr[i].body = <<>>

ApiAuthFailed(tr) == \E i \in ApiIdx(tr) : tr[i].status \in {401, 403}

(* The call is a plain help request: it is answered before the authentication check. *)
HelpRequest(op) == Contains(op, "help") /\ ~Contains(op, "status")
StatusRequest(op) == op = <<>> \/ Contains(op, "status")

KnownOps(tool) ==
    IF tool = GTM THEN { <<o>> : o \in GtmKnownOps } ELSE { <<o>> : o \in GaKnownOps }

(* C3: when a GTM handler's API call fails with 401 or 403, called_by_model *)
(* clears the cached token and the cached service and returns an            *)
(* authorization prompt; the next tool call on the instance performs a new  *)
(* token lookup before any GTM API request is made.                         *)
C3_AuthFailureClearsAndPrompts ==
    \A p \in Procs :
        /\ (Returned(p) /\ call[p].tool = GTM /\ ApiAuthFailed(trace[p])) =>
              /\ token_data = NoToken
              /\ service = None
              /\ outcome[p].kind = "auth_error"
              /\ outcome[p].url = AuthUrl
        /\ (after_clear[p] /\ ApiIdx(trace[p]) # {}) =>
              \E j \in KindIdx(trace[p], "token_lookup") : \A i \in ApiIdx(trace[p]) : j < i

(* C4 as stated: every operation name outside the known set gets the        *)
(* "Unknown operation" message, in both adapters and every authentication   *)
(* state.  (Read in the claim's favour: the pseudo-operations help and      *)
(* status and the empty name are left aside, and what the base GA4          *)
(* integration answers for the adapter is accepted.)                        *)
C4_Original ==
    \A p \in Procs :
        (/\ Returned(p) /\ Dispatched(call[p])
         /\ call[p].op \notin KnownOps(call[p].tool)
         /\ call[p].op # <<>>
         /\ ~Contains(call[p].op, "help") /\ ~Contains(call[p].op, "status"))
        => outcome[p].kind \in {"unknown_op", "base_response"}

(* C4 amended: a non-empty operation name outside the known set that        *)
(* contains neither "help" nor "status" gets the "Unknown operation"        *)
(* message when the adapter is authenticated, and the authorization prompt  *)
(* (GTM) or the base integration's response (GA4) when it is not; no        *)
(* exception is raised and no API request or report call is made.           *)
C4_UnknownOperation ==
    \A p \in Procs :
        (/\ Returned(p) /\ Dispatched(call[p])
         /\ call[p].op \notin KnownOps(call[p].tool)
         /\ call[p].op # <<>>
         /\ ~Contains(call[p].op, "help") /\ ~Contains(call[p].op, "status"))
        => /\ outcome[p].kind \notin RaisedKinds
           /\ ApiIdx(trace[p]) = {} /\ KindIdx(trace[p], "report") = {}
           /\ authenticated[p] => outcome[p].kind = "unknown_op"
           /\ ~authenticated[p] =>
                 outcome[p].kind \in {"auth_prompt", "oauth_failed", "base_response"}

(* An authenticated GTM adapter answered "Unknown operation" to op "bogus". *)
C4_Witness ==
    \E p \in Procs :
        /\ Returned(p) /\ call[p].tool = GTM /\ call[p].op = <<"bogus">>
        /\ authenticated[p] /\ outcome[p].kind = "unknown_op"

(* C5: called_by_model of either adapter returns the HELP text itself when  *)
(* model_produced_args is empty or absent.                                  *)
C5_EmptyArgsReturnHelp ==
    \A p \in Procs :
        (Returned(p) /\ ~call[p].has_args) => (outcome[p] = Out("help") /\ trace[p] = <<>>)

(* A call without arguments has returned. *)
C5_Witness ==
    \E p \in Procs : Returned(p) /\ call[p].tool = GTM /\ ~call[p].has_args

(* C6 as stated: every operation string that contains "help" gets the help  *)
(* text, also one that contains "status" as well.  (Read in the claim's     *)
(* favour: what the base GA4 integration answers for the adapter is         *)
(* accepted.)                                                               *)
C6_Original ==
    \A p \in Procs :
        (Returned(p) /\ Dispatched(call[p]) /\ Contains(call[p].op, "help"))
            => outcome[p].kind \in {"help", "base_response"}

(* C6 amended: an operation string that contains "help" and not "status"    *)
(* gets the help text, in both adapters and every authentication state; one *)
(* that contains both is answered as a status request.                      *)
C6_HelpOperation ==
    \A p \in Procs :
        (Returned(p) /\ Dispatched(call[p]) /\ Contains(call[p].op, "help")) =>
            IF Contains(call[p].op, "status")
            THEN outcome[p].kind \in {"status", "base_response"}
            ELSE outcome[p] = Out("help")

(* An unauthenticated GTM adapter answered a help request with the help text. *)
C6_Witness ==
    \E p \in Procs :
        /\ Returned(p) /\ call[p].tool = GTM /\ call[p].op = <<"list", "help">>
        /\ ~authenticated[p] /\ KindIdx(trace[p], "token_lookup") # {}
        /\ outcome[p].kind = "help"

(* C7 as stated: for an operation string that contains "status" or is       *)
(* empty the GTM dispatcher returns the status text without dispatching to  *)
(* a handler, and when unauthenticated the text includes a freshly started  *)
(* OAuth authorization URL.                                                 *)
C7_Original ==
    \A p \in Procs :
        (/\ Returned(p) /\ call[p].tool = GTM /\ Dispatched(call[p])
         /\ StatusRequest(call[p].op))
        => /\ outcome[p].kind = "status"
           /\ ApiIdx(trace[p]) = {}
           /\ ~authenticated[p] => outcome[p].url = AuthUrl

(* C7 amended: ... returns the status text without dispatching to a         *)
(* handler; when unauthenticated it starts one OAuth flow and the text      *)
(* includes the flow's authorization URL, or an OAuth error note when the   *)
(* flow cannot be started.                                                  *)
C7_StatusOperation ==
    \A p \in Procs :
        (/\ Returned(p) /\ call[p].tool = GTM /\ Dispatched(call[p])
         /\ StatusRequest(call[p].op))
        => /\ outcome[p].kind = "status"
           /\ ApiIdx(trace[p]) = {}
           /\ outcome[p].authenticated = authenticated[p]
           /\ authenticated[p] =>
                 KindIdx(trace[p], "oauth_start") = {} /\ outcome[p].url = ""
           /\ ~authenticated[p] =>
                 /\ KindIdx(trace[p], "oauth_start") = { Len(trace[p]) }
                 /\ IF trace[p][Len(trace[p])].status = 200
                    THEN outcome[p].url = AuthUrl /\ ~outcome[p].oauth_error
                    ELSE outcome[p].url = "" /\ outcome[p].oauth_error

(* An unauthenticated status request returned the status with the URL. *)
C7_Witness ==
    \E p \in Procs :
        /\ Returned(p) /\ call[p].tool = GTM /\ call[p].op = <<"status">>
        /\ ~authenticated[p] /\ outcome[p].kind = "status" /\ outcome[p].url = AuthUrl

(* C8 as stated: an unauthenticated GTM adapter answers an operation that   *)
(* is neither help nor status with the authorization prompt, without any    *)
(* API request and without dispatching to a handler.                        *)
C8_Original ==
    \A p \in Procs :
        (/\ Returned(p) /\ call[p].tool = GTM /\ Dispatched(call[p])
         /\ ~authenticated[p]
         /\ ~StatusRequest(call[p].op) /\ ~Contains(call[p].op, "help"))
        => /\ outcome[p].kind = "auth_prompt" /\ outcome[p].url = AuthUrl
           /\ ApiIdx(trace[p]) = {}

(* C8 amended: ... with the authorization prompt, or with the "Failed to    *)
(* initiate OAuth" string when the OAuth flow cannot be started; in both    *)
(* cases without any API request and without dispatching to a handler.      *)
C8_UnauthenticatedOperation ==
    \A p \in Procs :
        (/\ Returned(p) /\ call[p].tool = GTM /\ Dispatched(call[p])
         /\ ~authenticated[p]
         /\ ~StatusRequest(call[p].op) /\ ~Contains(call[p].op, "help"))
        => /\ ApiIdx(trace[p]) = {}
           /\ KindIdx(trace[p], "oauth_start") = { Len(trace[p]) }
           /\ IF trace[p][Len(trace[p])].status = 200
              THEN outcome[p].kind = "auth_prompt" /\ outcome[p].url = AuthUrl
              ELSE outcome[p].kind = "oauth_failed" /\ outcome[p].url = ""

(* An unauthenticated, unconfirmed createTag was answered with the prompt. *)
C8_Witness ==
    \E p \in Procs :
        /\ Returned(p) /\ call[p].op = <<"createTag">> /\ call[p].tool = GTM
        /\ ~authenticated[p] /\ outcome[p].kind = "auth_prompt"

(* C9 as stated: after any authentication error of the GTM adapter, a token *)
(* lookup that yields no token included, the cached token and the cached    *)
(* service are cleared, a fresh authorization URL is returned and the       *)
(* failed operation is not re-attempted within the call.  (Read in the      *)
(* claim's favour: the URL is asked for only when the OAuth flow could be   *)
(* started.)                                                                *)
C9_Original ==
    \A p \in Procs :
        (/\ Returned(p) /\ call[p].tool = GTM /\ Dispatched(call[p])
         /\ ~HelpRequest(call[p].op)
         /\ NoTokenAnswered(trace[p]) \/ ApiAuthFailed(trace[p]))
        => /\ token_data = NoToken
           /\ service = None
           /\ trace[p][Len(trace[p])].kind = "oauth_start"
           /\ trace[p][Len(trace[p])].status = 200 => outcome[p].url = AuthUrl

(* C9 amended, what holds in every state: a 401/403 clears the cached token *)
(* and the cached service, a lookup without a token clears the cached       *)
(* token; after either, and after a lookup that fails, a call that is not a *)
(* help request starts one OAuth flow as its last step, returns the flow's  *)
(* URL when there is one, and makes no further API request.                 *)
C9_AfterAuthError ==
    \A p \in Procs :
        (call[p].tool = GTM /\ Dispatched(call[p]) /\ pc[p] \in {"await_oauth", "returned"}) =>
            /\ ApiAuthFailed(trace[p]) => (token_data = NoToken /\ service = None)
            /\ NoTokenAnswered(trace[p]) => token_data = NoToken
            /\ (/\ Returned(p) /\ ~HelpRequest(call[p].op)
                /\ ApiAuthFailed(trace[p]) \/ ~authenticated[p])
               => /\ KindIdx(trace[p], "oauth_start") = { Len(trace[p]) }
                  /\ outcome[p].url = AuthUrl <=> trace[p][Len(trace[p])].status = 200

(* C9 amended, the step part: nothing but a 401/403 clears the cached service. *)
C9_ServiceClearedBy ==
    (service # None /\ service' = None) => \E p \in Procs : ApiAuthFailed(trace'[p])

(* C9 amended: after a 401/403 both the cached token and the cached service *)
(* are cleared; after a token lookup that yields no token only the cached   *)
(* token is cleared (a service built earlier is kept); in both cases, and   *)
(* when the lookup fails, a call that is not a help request starts exactly  *)
(* one OAuth flow, returns its authorization URL when the start yields one, *)
(* and does not re-attempt the operation.                                   *)
C9_Amended == [] C9_AfterAuthError /\ [][C9_ServiceClearedBy]_vars

(* A lookup without a token cleared the token and left the service built. *)
C9_Witness ==
    \E p \in Procs :
        /\ Returned(p) /\ call[p].tool = GTM /\ NoTokenAnswered(trace[p])
        /\ token_data = NoToken /\ service = ServiceBuilt
        /\ outcome[p].kind = "auth_prompt" /\ outcome[p].url = AuthUrl

(* C10: when a GTM API request fails with a status other than 401/403, the  *)
(* call returns a formatted error string and ends: the failing request was  *)
(* issued once, and no API request follows it in that call.                 *)
C10_ApiErrorIsTerminal ==
    \A p \in Procs : \A i \in ApiIdx(trace[p]) :
        trace[p][i].status \notin {200, 401, 403} =>
            /\ i = Len(trace[p])
            /\ \A j \in ApiIdx(trace[p]) \ {i} : trace[p][j].ep # trace[p][i].ep
            /\ Returned(p)
            /\ outcome[p].kind \in {"api_error", "not_found"}
            /\ outcome[p].kind \in FailureKinds
            /\ outcome[p].kind = "api_error" => outcome[p].status = trace[p][i].status
            /\ outcome[p].kind = "not_found" =>
                  (call[p].op = <<"getContainer">> /\ trace[p][i].status = 404)

(* linkGA4 got a 500 on its third request, the tag creation. *)
C10_Witness ==
    \E p \in Procs :
        /\ Returned(p) /\ call[p].op = <<"linkGA4">> /\ Len(trace[p]) >= 3
        /\ trace[p][Len(trace[p])].ep = "tags.create"
        /\ trace[p][Len(trace[p])].status = 500
        /\ outcome[p].kind = "api_error"

(* A handler of the GTM adapter ran for the call and the call is over. *)
HandlerRan(p) ==
    /\ Returned(p) /\ call[p].tool = GTM /\ Dispatched(call[p])
    /\ authenticated[p] /\ call[p].op \in KnownOps(GTM)

LacksRequired(c) == GtmRequired(c.op[1]) \ c.args # {}

(* C11 as stated: in every GTM handler, the mutating ones included and      *)
(* whatever the confirmation flag, a missing required argument makes the    *)
(* operation return a failure-marker string; nothing is raised and no GTM   *)
(* API request is made.                                                     *)
C11_Original ==
    \A p \in Procs :
        (HandlerRan(p) /\ LacksRequired(call[p])) =>
            /\ outcome[p].kind = "missing_params"
            /\ ApiIdx(trace[p]) = {}

(* C11 amended: a handler that lacks a required argument makes no GTM API   *)
(* request and returns the failure-marker "Missing required parameter"      *)
(* string without raising; the one exception is a mutating handler called   *)
(* without confirmation, which raises the confirmation request before it    *)
(* looks at its arguments.                                                  *)
C11_MissingArgument ==
    \A p \in Procs :
        (HandlerRan(p) /\ LacksRequired(call[p])) =>
            /\ ApiIdx(trace[p]) = {}
            /\ IF MutatingCall(call[p]) /\ ~call[p].confirmed
               THEN outcome[p].kind = "NeedsConfirmation"
               ELSE /\ outcome[p].kind = "missing_params"
                    /\ outcome[p].kind \in FailureKinds
                    /\ outcome[p].kind \notin RaisedKinds

(* A confirmed createTag without tagName was answered "Missing required parameters". *)
C11_Witness ==
    \E p \in Procs :
        /\ HandlerRan(p) /\ call[p].op = <<"createTag">> /\ call[p].confirmed
        /\ "tagName" \notin call[p].args /\ "accountId" \in call[p].args
        /\ outcome[p].kind = "missing_params"

WorkspaceOps == { <<o>> : o \in {"listTags", "listTriggers", "listVariables", "createTag",
                                 "createTrigger", "createVariable", "createVersion",
                                 "linkGA4"} }

(* The handler of a workspace operation got as far as its workspace resolution. *)
ReachedResolution(p) ==
    /\ HandlerRan(p) /\ call[p].op \in WorkspaceOps
    /\ ~LacksRequired(call[p])
    /\ MutatingCall(call[p]) => call[p].confirmed

ListingIdx(tr) == { i \in ApiIdx(tr) : tr[i].ep = "workspaces.list" }

(* C12: a workspace operation (listTags, listTriggers, listVariables,       *)
(* createTag, createTrigger, createVariable, createVersion, linkGA4) called *)
(* with workspaceId omitted calls the workspace-listing endpoint exactly    *)
(* once, before every request to the operation's own endpoints, and those   *)
(* requests target the workspaceId of the first listed workspace; a call    *)
(* that ends in success has issued such a request.                          *)
C12_DefaultWorkspace ==
    \A p \in Procs :
        (ReachedResolution(p) /\ "workspaceId" \notin call[p].args) =>
            LET tr  == trace[p]
                api == ApiIdx(tr)
                own == api \ ListingIdx(tr)
            IN  /\ Cardinality(ListingIdx(tr)) = 1
                /\ \A l \in ListingIdx(tr) :
                      /\ \A i \in api : l <= i
                      /\ \A i \in own :
                            /\ tr[l].status = 200
                            /\ tr[l].body # <<>> => tr[i].ws = tr[l].body[1]
                /\ outcome[p].kind = "success" => own # {}

(* linkGA4 without workspaceId listed the workspaces, then read the         *)
(* triggers of the first one and created its tag there.                     *)
C12_Witness ==
    \E p \in Procs :
        /\ ReachedResolution(p) /\ call[p].op = <<"linkGA4">>
        /\ "workspaceId" \notin call[p].args /\ outcome[p].kind = "success"
        /\ \E l, i, j \in ApiIdx(trace[p]) :
              /\ l < i /\ i < j
              /\ trace[p][l].ep = "workspaces.list" /\ trace[p][l].body = <<"w1", "w2">>
              /\ trace[p][i].ep = "triggers.list" /\ trace[p][i].ws = "w1"
              /\ trace[p][j].ep = "tags.create" /\ trace[p][j].ws = "w1"

(* C13: workspace resolution is never cached across tool calls.  In any     *)
(* sequence of calls, a workspace operation called without workspaceId      *)
(* issues its own workspace-listing request, whatever earlier calls on the  *)
(* instance have listed; one called with an explicit workspaceId issues no  *)
(* listing request, and its requests target the passed id unchanged.        *)
C13_NoWorkspaceCache ==
    \A p \in Procs :
        ReachedResolution(p) =>
            LET tr == trace[p]
            IN  IF "workspaceId" \in call[p].args
                THEN /\ ListingIdx(tr) = {}
                     /\ ApiIdx(tr) # {}
                     /\ \A i \in ApiIdx(tr) : tr[i].ws = ArgValue.workspaceId
                ELSE /\ Cardinality(ListingIdx(tr)) = 1
                     /\ \A l \in ListingIdx(tr) : \A i \in ApiIdx(tr) : l <= i

(* A call without workspaceId listed the workspaces although an earlier     *)
(* call on the instance had already resolved one by listing.                *)
C13_Witness ==
    \E p \in Procs :
        /\ listed_before = "w1"
        /\ ReachedResolution(p) /\ call[p].op = <<"listTriggers">>
        /\ "workspaceId" \notin call[p].args /\ outcome[p].kind = "success"
        /\ ListingIdx(trace[p]) = {1}
        /\ trace[p][2].ep = "triggers.list" /\ trace[p][2].ws = "w1"

(* C14: every GTM tool call ends in a returned success string or a returned *)
(* failure-marker string; the only exception that escapes called_by_model   *)
(* is the confirmation-needed signal -- none escapes when the workspace     *)
(* listing of the default resolution lists no workspace, nor when the OAuth *)
(* flow cannot be started during the 401/403 recovery.                      *)
C14_OnlyConfirmationEscapes ==
    \A p \in Procs :
        (Returned(p) /\ call[p].tool = GTM) =>
            outcome[p].kind \notin RaisedKinds \ {"NeedsConfirmation"}

ReportIdx(tr) == KindIdx(tr, "report")

(* The GA4 handler of the call ran and the call is over. *)
GaHandlerRan(p) ==
    /\ Returned(p) /\ call[p].tool = GA /\ Dispatched(call[p])
    /\ authenticated[p] /\ call[p].op \in KnownOps(GA)

(* C15: getFunnelReport with a propertyId and a non-empty funnelSteps list  *)
(* that returns its analysis has issued exactly one base report call per    *)
(* declared step, and its output has for the i-th step (counted from 1) the *)
(* line "i. <name> (<page>)", in step order, then the drop-off disclaimer   *)
(* as its last line; a step without a name is labelled "Step i".  A call    *)
(* that ends otherwise has issued at most one report call per step.         *)
C15_FunnelReport ==
    \A p \in Procs :
        (/\ GaHandlerRan(p) /\ call[p].op = <<"getFunnelReport">>
         /\ {"propertyId", "funnelSteps"} \subseteq call[p].args)
        => LET steps == call[p].steps
               n     == Len(steps)
               lines == outcome[p].lines
           IN  /\ n > 0
               /\ outcome[p].kind \in {"funnel", "error"}
               /\ Cardinality(ReportIdx(trace[p])) <= n
               /\ \A i \in ReportIdx(trace[p]) :
                     /\ trace[p][i].body.propertyId = ArgValue.propertyId
                     /\ trace[p][i].body.metrics = <<"screenPageViews", "sessions">>
               /\ outcome[p].kind = "funnel" =>
                     /\ Cardinality(ReportIdx(trace[p])) = n
                     /\ Len(lines) = n + 1
                     /\ lines[n + 1] = <<"disclaimer">>
                     /\ \A i \in 1..n :
                           lines[i] = << i,
                                         IF steps[i].has_name THEN steps[i].name
                                         ELSE <<"Step", i>>,
                                         steps[i].page >>

(* A funnel of a named and an unnamed step was reported: two report calls,  *)
(* "1. Home (/)", "2. Step 2 (/cart)" and the disclaimer.                   *)
C15_Witness ==
    \E p \in Procs :
        /\ GaHandlerRan(p) /\ call[p].op = <<"getFunnelReport">>
        /\ call[p].steps = << Step(TRUE, "Home", "/"), Step(FALSE, "", "/cart") >>
        /\ Cardinality(ReportIdx(trace[p])) = 2
        /\ outcome[p].lines = << <<1, "Home", "/">>, <<2, <<"Step", 2>>, "/cart">>,
                                 <<"disclaimer">> >>

Lines(out) == { out.lines[i] : i \in 1..Len(out.lines) }

(* C16: getContainer with accountId and containerId present issues one      *)
(* containers.get request; when the API returns a container with a publicId *)
(* the response carries that publicId both in the <script> snippet and in   *)
(* the <noscript> snippet, and when the API answers 404 the response is the *)
(* "Container not found" error string.                                      *)
C16_GetContainer ==
    \A p \in Procs :
        (/\ HandlerRan(p) /\ call[p].op = <<"getContainer">>
         /\ {"accountId", "containerId"} \subseteq call[p].args)
        => LET tr == trace[p]
               g  == { i \in ApiIdx(tr) : tr[i].ep = "containers.get" }
           IN  /\ g = ApiIdx(tr) /\ Cardinality(g) = 1
               /\ \A i \in g :
                     /\ (tr[i].status = 200 /\ tr[i].body # <<"">>) =>
                           /\ outcome[p].kind = "success"
                           /\ <<"<script>", tr[i].body[1]>> \in Lines(outcome[p])
                           /\ <<"<noscript>", tr[i].body[1]>> \in Lines(outcome[p])
                     /\ tr[i].status = 404 =>
                           /\ outcome[p].kind = "not_found"
                           /\ outcome[p].kind \in FailureKinds

(* getContainer returned the two snippets for the container GTM-XXXX. *)
C16_Witness ==
    \E p \in Procs :
        /\ HandlerRan(p) /\ call[p].op = <<"getContainer">>
        /\ outcome[p].kind = "success"
        /\ {<<"<script>", "GTM-XXXX">>, <<"<noscript>", "GTM-XXXX">>} \subseteq Lines(outcome[p])

TemplateOps == { <<o>> : o \in {"listEvents", "getConversions", "getEcommerceReport",
                                "getUserJourney", "customQuery"} }

(* The report request each template operation is to send for args: the     *)
(* fixed values, and the caller's where the operation takes them.           *)
Template(o, args) ==
    CASE o = "listEvents" ->
            BaseArgs(ArgValue.propertyId, GetOr(args, "dateRange", "last7days"),
                     <<"eventCount", "eventValue">>, <<"eventName">>,
                     <<"eventCount", "desc">>, <<50>>)
      [] o = "getConversions" ->
            BaseArgs(ArgValue.propertyId, GetOr(args, "dateRange", "last30days"),
                     <<"conversions", "totalRevenue", "sessions">>,
                     GetOr(args, "dimensions", <<"sessionSource", "sessionMedium">>),
                     <<"conversions", "desc">>, <<20>>)
      [] o = "getEcommerceReport" ->
            BaseArgs(ArgValue.propertyId, GetOr(args, "dateRange", "last30days"),
                     <<"itemRevenue", "itemsPurchased", "itemsViewed">>,
                     GetOr(args, "dimensions", <<"itemName", "itemCategory">>),
                     <<"itemRevenue", "desc">>, <<30>>)
      [] o = "getUserJourney" ->
            BaseArgs(ArgValue.propertyId, GetOr(args, "dateRange", "last7days"),
                     <<"screenPageViews", "sessions">>, <<"pagePath", "pageTitle">>,
                     <<"screenPageViews", "desc">>, <<100>>)
      [] OTHER ->
            BaseArgs(ArgValue.propertyId, GetOr(args, "dateRange", "last30days"),
                     GetOr(args, "metrics", <<"sessions">>), GetOr(args, "dimensions", <<>>),
                     GetOr(args, "orderBy", <<>>), GetOr(args, "limit", <<100>>))

SameQuery(a, b) ==
    /\ a.propertyId = b.propertyId /\ a.metrics = b.metrics /\ a.dimensions = b.dimensions
    /\ a.orderBy = b.orderBy /\ a.limit = b.limit

(* C17 as stated: listEvents, getConversions, getEcommerceReport,           *)
(* getUserJourney and customQuery called with a propertyId issue exactly    *)
(* one base report call, with the caller's propertyId, the caller's         *)
(* dateRange or the operation's default, and the operation's template for   *)
(* metrics, dimensions, orderBy and limit.                                  *)
C17_Original ==
    \A p \in Procs :
        (GaHandlerRan(p) /\ call[p].op \in TemplateOps /\ "propertyId" \in call[p].args)
        => /\ Cardinality(ReportIdx(trace[p])) = 1
           /\ \A i \in ReportIdx(trace[p]) :
                 LET t == Template(call[p].op[1], call[p].args)
                 IN  SameQuery(trace[p][i].body, t) /\ trace[p][i].body.dateRange = t.dateRange

(* C17 amended: ... exactly one base report call, with the caller's         *)
(* propertyId and the operation's template for metrics, dimensions, orderBy *)
(* and limit; its dateRange is the caller's or the operation's default,     *)
(* except that customQuery called with both startDate and endDate sends     *)
(* dateRange "custom" together with the two dates.                          *)
C17_ReportTemplate ==
    \A p \in Procs :
        (GaHandlerRan(p) /\ call[p].op \in TemplateOps /\ "propertyId" \in call[p].args)
        => /\ Cardinality(ReportIdx(trace[p])) = 1
           /\ outcome[p].kind \in {"report", "journey", "error"}
           /\ \A i \in ReportIdx(trace[p]) :
                 LET t == Template(call[p].op[1], call[p].args)
                     b == trace[p][i].body
                 IN  /\ SameQuery(b, t)
                     /\ IF /\ call[p].op = <<"customQuery">>
                           /\ {"startDate", "endDate"} \subseteq call[p].args
                        THEN /\ b.dateRange = "custom"
                             /\ b.startDate = ArgValue.startDate
                             /\ b.endDate = ArgValue.endDate
                        ELSE b.dateRange = t.dateRange /\ b.startDate = "" /\ b.endDate = ""

(* getConversions with the caller's dimensions and the default dateRange    *)
(* has sent its one report request.                                         *)
C17_Witness ==
    \E p \in Procs :
        /\ GaHandlerRan(p) /\ call[p].op = <<"getConversions">>
        /\ call[p].args = {"propertyId", "dimensions"}
        /\ outcome[p].kind = "report"
        /\ \E i \in ReportIdx(trace[p]) :
              /\ trace[p][i].body.dimensions = ArgValue.dimensions
              /\ trace[p][i].body.dateRange = "last30days"
              /\ trace[p][i].body.limit = <<20>>

(* C18: customQuery executes the query with the caller's filters: when args *)
(* carry a non-empty filters list, the request passed to the base report    *)
(* call contains those filters.                                             *)
C18_FiltersInRequest ==
    \A p \in Procs :
        (/\ GaHandlerRan(p) /\ call[p].op = <<"customQuery">>
         /\ {"propertyId", "filters"} \subseteq call[p].args)
        => \A i \in ReportIdx(trace[p]) :
              /\ "filters" \in DOMAIN trace[p][i].body
              /\ trace[p][i].body["filters"] = ArgValue.filters

(* The integration each advertised tool is to be served by. *)
IntegrationOf(name) ==
    CASE name = "google_analytics"       -> "ga_integration"
      [] name = GA                       -> "ga_enhanced_integration"
      [] name = GTM                      -> "gtm_integration"
      [] name = "mongo_store"            -> "handle_mongo_store"
      [] name = "flexus_policy_document" -> "pdoc_integration"
      [] name = "ask_questions"          -> "handle_ask_questions"
      [] OTHER                           -> None

(* C19: the bot advertises exactly six tools (google_analytics,             *)
(* google_analytics_enhanced, google_tag_manager, mongo_store,              *)
(* flexus_policy_document, ask_questions), and the main loop registers      *)
(* exactly one tool-call handler for each advertised name and for no other  *)
(* name, each calling the integration of that name; every tool call is      *)
(* answered by the integration of its tool.                                 *)
C19_ToolsAndHandlers ==
    /\ Len(TOOLS) = 6
    /\ ToolNames = {"google_analytics", "google_analytics_enhanced", "google_tag_manager",
                    "mongo_store", "flexus_policy_document", "ask_questions"}
    /\ Len(on_tool_call) = 6
    /\ \A i \in 1..Len(on_tool_call) : on_tool_call[i].name \in ToolNames
    /\ \A name \in ToolNames :
          /\ Cardinality({ i \in 1..Len(on_tool_call) : on_tool_call[i].name = name }) = 1
          /\ HandlersFor(name) = { IntegrationOf(name) }
    /\ \A p \in Procs :
          pc[p] # "idle" =>
              /\ call[p].tool \in ToolNames
              /\ (Returned(p) /\ call[p].tool \notin {GTM, GA}) =>
                    outcome[p] = [Out("external_response") EXCEPT
                                     !.subject = IntegrationOf(call[p].tool)]
              /\ (Returned(p) /\ call[p].tool \in {GTM, GA}) =>
                    outcome[p].kind # "external_response"

(* An ask_questions call was answered by handle_ask_questions. *)
C19_Witness ==
    \E p \in Procs :
        /\ Returned(p) /\ call[p].tool = "ask_questions"
        /\ outcome[p].subject = "handle_ask_questions"

LookupIdx(tr) == KindIdx(tr, "token_lookup")

(* C20, the states: a call performs at most one token lookup, as its first  *)
(* step; a finished call that got as far as _ensure_service has performed   *)
(* one, or has skipped it and is authenticated.                             *)
C20_AtMostOneLookup ==
    \A p \in Procs :
        /\ LookupIdx(trace[p]) \subseteq {1}
        /\ pc[p] = "await_token" <=> (LookupIdx(trace[p]) = {1} /\ trace[p][1].status = 0)
        /\ (Returned(p) /\ call[p].tool = GTM /\ Dispatched(call[p]) /\ LookupIdx(trace[p]) = {})
              => authenticated[p]

(* C20, a call entering called_by_model: the lookup is skipped exactly when *)
(* a service and a token are cached and now < expires_at - 60.              *)
C20_SkipsExactlyWhenFresh ==
    \A p \in Procs :
        (pc[p] = "idle" /\ pc'[p] # "idle" /\ call'[p].tool = GTM) =>
            IF ~Dispatched(call'[p]) THEN LookupIdx(trace'[p]) = {}
            ELSE IF /\ service # None /\ token_data # NoToken
                    /\ now < token_data.expires_at - ExpiryMargin
                 THEN /\ LookupIdx(trace'[p]) = {} /\ pc'[p] # "await_token"
                      /\ authenticated'[p]
                 ELSE /\ pc'[p] = "await_token"
                      /\ trace'[p] = << Event("token_lookup") >>
                      /\ token_data' = token_data /\ service' = service

(* C20, the lookup answered: a non-empty token becomes the cached token and *)
(* the service is built from it (a 401/403 later in the call may clear      *)
(* both); without a token the service is left as it was.                    *)
C20_LookupRebuilds ==
    \A p \in Procs :
        (pc[p] = "await_token" /\ pc'[p] # "await_token") =>
            /\ LookupIdx(trace'[p]) = {1}
            /\ trace'[p][1].body = <<"token">> =>
                  /\ authenticated'[p]
                  /\ \/ service' = ServiceBuilt /\ token_data' # NoToken
                     \/ ApiAuthFailed(trace'[p]) /\ service' = None /\ token_data' = NoToken
            /\ trace'[p][1].body = <<>> => (~authenticated'[p] /\ service' = service)

(* C20: the GTM service is created lazily and reused.  _ensure_service      *)
(* skips the token lookup exactly when a service and a token are cached and *)
(* the current time is strictly less than the token's expires_at minus 60   *)
(* seconds; in every other state a call that reaches it performs exactly    *)
(* one token lookup, and on a non-empty token rebuilds the service from it. *)
C20_LazyService ==
    /\ [] C20_AtMostOneLookup
    /\ [][C20_SkipsExactlyWhenFresh /\ C20_LookupRebuilds]_vars

(* A call waits for its token lookup although a service and a token are     *)
(* cached: the clock stands exactly at expires_at - 60.                     *)
C20_Witness ==
    \E p \in Procs :
        /\ pc[p] = "await_token" /\ call[p].op = <<"listAccounts">>
        /\ service = ServiceBuilt /\ token_data # NoToken
        /\ now = token_data.expires_at - ExpiryMargin /\ now > 0

(* A call on a fresh cached service has run its handler without a lookup. *)
C20_WitnessReuse ==
    \E p \in Procs :
        /\ HandlerRan(p) /\ trace[p] # <<>> /\ LookupIdx(trace[p]) = {}
        /\ outcome[p].kind = "success" /\ now < token_data.expires_at - ExpiryMargin

(* C21: when two tool calls on one GTM integration instance interleave at   *)
(* their suspension points (token lookup, OAuth flow start), no handler     *)
(* issues an API request through a cleared service: a call that             *)
(* _ensure_service answered True for runs its handler, to its last API      *)
(* request, on a built service, and only a 401/403 of its own leaves the    *)
(* service cleared at the end of that step.                                 *)
C21_Step ==
    \A p \in TwoCalls :
        (pc[p] \in {"idle", "await_token"} /\ pc'[p] \in {"returned", "await_oauth"}
         /\ authenticated'[p]) =>
            /\ outcome'[p].kind # "AttributeError"
            /\ \/ service' = ServiceBuilt
               \/ service' = None /\ ApiAuthFailed(trace'[p])
            /\ (pc[p] = "idle" /\ ApiIdx(trace'[p]) # {}) => service = ServiceBuilt

C21_NoRequestOnClearedService ==
    /\ [] (\A p \in TwoCalls : outcome[p].kind # "AttributeError")
    /\ [][C21_Step]_vars

(* A call got a 401/403, cleared the service and is suspended at its OAuth  *)
(* flow start; meanwhile the other call's token lookup was answered, the    *)
(* service was built again and its handler listed the containers.           *)
C21_Witness ==
    /\ DOMAIN pc = TwoCalls
    /\ pc[1] = "await_oauth" /\ resume[1].site = "recover"
    /\ pc[2] = "returned" /\ call[2].op = <<"listContainers">>
    /\ outcome[2].kind = "success" /\ LookupIdx(trace[2]) = {1}
    /\ service = ServiceBuilt

(* The argument a mutating operation's confirmation command is to name. *)
ConfirmedObject(o) ==
    CASE o = "createContainer" -> "containerName"
      [] o = "createTag"       -> "tagName"
      [] o = "createTrigger"   -> "triggerName"
      [] o = "createVariable"  -> "variableName"
      [] o = "createVersion"   -> "versionName"
      [] o = "publishVersion"  -> "versionId"
      [] OTHER                 -> "measurementId"

(* C22: the confirmation request raised by publishVersion carries the setup *)
(* key "gtm_publish", the requests of createContainer, createTag,           *)
(* createTrigger, createVariable, createVersion and linkGA4 carry           *)
(* "gtm_write"; each request's command names the object given in the        *)
(* call's own arguments (nothing when the call gives none).                 *)
C22_ConfirmationRequest ==
    \A p \in Procs :
        (Returned(p) /\ outcome[p].kind = "NeedsConfirmation") =>
            /\ MutatingCall(call[p]) /\ ~call[p].confirmed
            /\ outcome[p].key =
                  IF call[p].op = <<"publishVersion">> THEN "gtm_publish" ELSE "gtm_write"
            /\ outcome[p].subject =
                  IF ConfirmedObject(call[p].op[1]) \in call[p].args
                  THEN ArgValue[ConfirmedObject(call[p].op[1])] ELSE ""

(* An unconfirmed publishVersion of version 5 asked for confirmation under  *)
(* "gtm_publish".                                                           *)
C22_Witness ==
    \E p \in Procs :
        /\ Returned(p) /\ call[p].op = <<"publishVersion">>
        /\ outcome[p].kind = "NeedsConfirmation"
        /\ outcome[p].key = "gtm_publish" /\ outcome[p].subject = "5"

(* id is the triggerId of the first trigger of type "pageview" in the listing. *)
IsFirstPageview(listing, id) ==
    \E k \in 1..Len(listing) :
        /\ listing[k].type = "pageview" /\ listing[k].triggerId = id
        /\ \A j \in 1..(k - 1) : listing[j].type # "pageview"

HasPageview(listing) == \E k \in 1..Len(listing) : listing[k].type = "pageview"

(* C23: a confirmed linkGA4 with its required arguments lists the triggers  *)
(* of the workspace, picks the first trigger of type "pageview" and creates *)
(* exactly one tag, in that workspace, firing on that trigger with the      *)
(* given measurementId; when the listing has no pageview trigger it returns *)
(* an error string and issues no tag-creation request.                      *)
C23_LinkGA4 ==
    \A p \in Procs :
        (/\ HandlerRan(p) /\ call[p].op = <<"linkGA4">> /\ call[p].confirmed
         /\ ~LacksRequired(call[p]))
        => LET tr      == trace[p]
               listed  == { i \in ApiIdx(tr) : tr[i].ep = "triggers.list" /\ tr[i].status = 200 }
               created == { i \in ApiIdx(tr) : tr[i].ep = "tags.create" }
           IN  /\ Cardinality(created) <= 1
               /\ Cardinality({ i \in ApiIdx(tr) : tr[i].ep = "triggers.list" }) <= 1
               /\ \A c \in created : \E t \in listed :
                     /\ t < c /\ tr[c].ws = tr[t].ws
                     /\ Len(tr[c].body) = 2
                     /\ tr[c].body[1] = ArgValue.measurementId
                     /\ IsFirstPageview(tr[t].body, tr[c].body[2])
               /\ \A t \in listed :
                     IF HasPageview(tr[t].body)
                     THEN Cardinality(created) = 1
                     ELSE /\ created = {}
                          /\ outcome[p].kind = "no_pageview_trigger"
                          /\ outcome[p].kind \in FailureKinds
               /\ outcome[p].kind = "success" => created # {}

(* linkGA4 found the click trigger 7 and the pageview triggers 8 and 9 and  *)
(* created its tag on trigger 8.                                            *)
C23_Witness ==
    \E p \in Procs :
        /\ HandlerRan(p) /\ call[p].op = <<"linkGA4">> /\ outcome[p].kind = "success"
        /\ \E t, c \in ApiIdx(trace[p]) :
              /\ trace[p][t].ep = "triggers.list" /\ Len(trace[p][t].body) = 3
              /\ trace[p][c].ep = "tags.create"
              /\ trace[p][c].body = <<"G-XXXXXXXXXX", "8">>

(* The error strings that are no authentication matter. *)
PlainErrors == {"api_error", "not_found", "missing_params", "unknown_op"}

EndsInPlainError(p) ==
    pc'[p] = "returned" /\ call'[p].tool = GTM /\ outcome'[p].kind \in PlainErrors

(* C24, the states: a GTM call that ended in such an error string leaves a  *)
(* cached token and a built service behind.                                 *)
C24_CredentialsKept ==
    \A p \in Procs :
        (Returned(p) /\ call[p].tool = GTM /\ outcome[p].kind \in PlainErrors) =>
            token_data # NoToken /\ service = ServiceBuilt

(* C24, the steps: the call that ends in the error changes neither the      *)
(* token nor the service once _ensure_service has answered; handing the     *)
(* response over changes neither; and a call that finds them inside the     *)
(* token's validity window performs no token lookup.                        *)
C24_Steps ==
    \A p \in Procs :
        /\ (pc[p] = "idle" /\ EndsInPlainError(p)) =>
              (token_data' = token_data /\ service' = service /\ LookupIdx(trace'[p]) = {})
        /\ (pc[p] = "await_token" /\ EndsInPlainError(p)) =>
              (token_data' # NoToken /\ service' = ServiceBuilt)
        /\ (pc[p] = "returned" /\ pc'[p] = "idle") =>
              (token_data' = token_data /\ service' = service)
        /\ (/\ pc[p] = "idle" /\ pc'[p] # "idle" /\ call'[p].tool = GTM /\ Dispatched(call'[p])
            /\ token_data # NoToken /\ service # None
            /\ now < token_data.expires_at - ExpiryMargin)
           => (LookupIdx(trace'[p]) = {} /\ authenticated'[p])

(* C24: a GTM API failure with a status other than 401/403 (the 404 that    *)
(* getContainer turns into "Container not found" included), a missing       *)
(* argument and an unknown operation leave the cached token and the cached  *)
(* service unchanged, so the next call within the token's validity window   *)
(* reuses them without a token lookup.                                      *)
C24_ErrorsKeepCredentials == [] C24_CredentialsKept /\ [][C24_Steps]_vars

(* A call on the cached service got a 500 and returned the API error        *)
(* string; token and service are still cached and valid.                    *)
C24_Witness ==
    \E p \in Procs :
        /\ Returned(p) /\ call[p].op = <<"listContainers">>
        /\ outcome[p].kind = "api_error" /\ outcome[p].status = 500
        /\ LookupIdx(trace[p]) = {}
        /\ service = ServiceBuilt /\ token_data # NoToken
        /\ now < token_data.expires_at - ExpiryMargin

(* The call is answered before _ensure_service: no arguments, or arguments  *)
(* that sanitize_args rejects.                                              *)
AnsweredEarly(c) == c.tool \in {GTM, GA} /\ (~c.has_args \/ c.args_error)

C25_Returned ==
    \A p \in Procs :
        (pc[p] # "idle" /\ AnsweredEarly(call[p])) =>
            /\ Returned(p)
            /\ trace[p] = <<>>
            /\ outcome[p].kind = IF ~call[p].has_args THEN "help" ELSE "args_error"
            /\ outcome[p].url = ""

C25_Step ==
    \A p \in Procs :
        (pc[p] = "idle" /\ pc'[p] # "idle" /\ AnsweredEarly(call'[p])) =>
            /\ token_data' = token_data
            /\ service' = service
            /\ reauth_due' = reauth_due

(* C25: a call of either adapter with empty or absent model_produced_args   *)
(* returns help without a token lookup, an OAuth flow start or an API       *)
(* request, and leaves the cached token and service unchanged; so does a    *)
(* call whose arguments sanitize_args rejects, and it returns that error.   *)
C25_EarlyReturnTouchesNothing == [] C25_Returned /\ [][C25_Step]_vars

(* A confirmed createTag with rejected arguments returned the error while   *)
(* a token and a service were cached.                                       *)
C25_Witness ==
    \E p \in Procs :
        /\ Returned(p) /\ call[p].tool = GTM /\ call[p].op = <<"createTag">>
        /\ call[p].confirmed /\ call[p].args_error
        /\ outcome[p].kind = "args_error" /\ trace[p] = <<>>
        /\ token_data # NoToken /\ service = ServiceBuilt

(* A call of the GA4 adapter without arguments returned help. *)
C25_WitnessHelp ==
    \E p \in Procs :
        /\ Returned(p) /\ call[p].tool = GA /\ ~call[p].has_args
        /\ outcome[p].kind = "help" /\ trace[p] = <<>>
        /\ token_data # NoToken /\ service = ServiceBuilt

(* The operation asks for help and not for the status. *)
HelpOnly(op) == print_help(op) /\ ~print_status(op)

DelegatedIdx(tr) == KindIdx(tr, "base_called_by_model")

(* C26: when the GA4 adapter finds the base integration unauthenticated and *)
(* the operation is not help-only, it issues no base report call and        *)
(* returns exactly what base.called_by_model returns for the same toolcall  *)
(* and arguments; a status operation's own status text is discarded.        *)
C26_DelegatesToBase ==
    \A p \in Procs :
        (/\ Returned(p) /\ call[p].tool = GA /\ Dispatched(call[p])
         /\ ~authenticated[p] /\ ~HelpOnly(call[p].op))
        => LET tr == trace[p]
           IN  /\ ReportIdx(tr) = {}
               /\ DelegatedIdx(tr) = {Len(tr)}
               /\ tr[Len(tr)].body.op = call[p].op
               /\ tr[Len(tr)].body.args = call[p].args
               /\ tr[Len(tr)].body.empty = call[p].empty
               /\ tr[Len(tr)].body.steps = call[p].steps
               /\ tr[Len(tr)].body.confirmed = call[p].confirmed
               /\ outcome[p] = [Out("base_response") EXCEPT !.subject = tr[Len(tr)].body.reply]

(* An unauthenticated status call returned the base integration's answer. *)
C26_Witness ==
    \E p \in Procs :
        /\ Returned(p) /\ call[p].tool = GA /\ call[p].op = <<"status">>
        /\ ~authenticated[p]
        /\ outcome[p].kind = "base_response" /\ outcome[p].subject = "base_status"
        /\ DelegatedIdx(trace[p]) = {2}

(* An unauthenticated getFunnelReport was handed to the base integration. *)
C26_WitnessReport ==
    \E p \in Procs :
        /\ Returned(p) /\ call[p].op = <<"getFunnelReport">> /\ call[p].steps # <<>>
        /\ ~authenticated[p]
        /\ outcome[p].kind = "base_response" /\ outcome[p].subject = "base_prompt"
        /\ ReportIdx(trace[p]) = {}

(* The base report calls of the trace that failed. *)
FailedReports(tr) == { i \in ReportIdx(tr) : tr[i].status # 200 }

(* The funnel steps of the call that are no dicts. *)
BadSteps(c) == { i \in 1..Len(c.steps) : ~c.steps[i].is_dict }

(* The call ran _get_funnel_report past its argument check. *)
FunnelRan(p) ==
    /\ GaHandlerRan(p) /\ call[p].op = <<"getFunnelReport">>
    /\ ~Missing(call[p].args, {"propertyId", "funnelSteps"}) /\ call[p].steps # <<>>

(* C27: in the GA4 adapter an exception raised while a dispatched handler   *)
(* runs (a failing base report call, a malformed funnel step) is caught and *)
(* returned as the failure-marked "Error: ..." string; no exception of a    *)
(* handler leaves called_by_model, and after a failure in the middle of a   *)
(* funnel no further report call is issued.                                 *)
C27_HandlerExceptionsCaught ==
    \A p \in Procs :
        (Returned(p) /\ call[p].tool = GA) =>
            LET tr == trace[p]
                failed == FailedReports(tr)
                bad == IF FunnelRan(p) THEN BadSteps(call[p]) ELSE {}
            IN  /\ outcome[p].kind \notin RaisedKinds
                /\ failed # {} =>
                      /\ outcome[p].kind = "error" /\ outcome[p].kind \in FailureKinds
                      /\ failed = {Len(tr)}
                /\ (bad # {} /\ failed = {}) =>
                      /\ outcome[p].kind = "error"
                      /\ \E b \in bad : /\ \A x \in bad : b <= x
                                        /\ Cardinality(ReportIdx(tr)) = b - 1
                /\ outcome[p].kind = "error" => (GaHandlerRan(p) /\ (failed # {} \/ bad # {}))

(* The second report call of a two-step funnel failed: the call returned    *)
(* the error string after exactly two report calls.                         *)
C27_Witness ==
    \E p \in Procs :
        /\ FunnelRan(p) /\ Len(call[p].steps) = 2 /\ BadSteps(call[p]) = {}
        /\ Cardinality(ReportIdx(trace[p])) = 2
        /\ FailedReports(trace[p]) = {Len(trace[p])}
        /\ outcome[p].kind = "error"

(* The second step of a funnel is no dict: one report call, then the error. *)
C27_WitnessBadStep ==
    \E p \in Procs :
        /\ FunnelRan(p) /\ BadSteps(call[p]) = {2}
        /\ Cardinality(ReportIdx(trace[p])) = 1 /\ FailedReports(trace[p]) = {}
        /\ outcome[p].kind = "error"

(* The call ran _custom_query past its propertyId check. *)
CustomQueryRan(p) ==
    GaHandlerRan(p) /\ call[p].op = <<"customQuery">> /\ "propertyId" \in call[p].args

(* C28: customQuery switches the base report call to dateRange "custom"     *)
(* with the caller's startDate and endDate exactly when both are supplied   *)
(* and non-empty; when only one of them is supplied it is ignored and the   *)
(* caller's dateRange (default last30days) is used.                         *)
C28_CustomDates ==
    \A p \in Procs :
        CustomQueryRan(p) =>
            /\ ReportIdx(trace[p]) # {}
            /\ \A i \in ReportIdx(trace[p]) :
                  LET b == trace[p][i].body
                      both == DateKeys \subseteq call[p].args
                  IN  /\ b.dateRange = "custom" <=> both
                      /\ both => /\ b.startDate = ArgValue.startDate
                                 /\ b.endDate = ArgValue.endDate
                      /\ ~both => /\ b.startDate = "" /\ b.endDate = ""
                                  /\ b.dateRange = IF "dateRange" \in call[p].args
                                                   THEN ArgValue.dateRange ELSE "last30days"

(* startDate came with a value and endDate as "": the request carries the   *)
(* caller's dateRange and no dates.                                         *)
C28_Witness ==
    \E p \in Procs :
        /\ CustomQueryRan(p) /\ "startDate" \in call[p].args /\ call[p].empty = {"endDate"}
        /\ outcome[p].kind = "report"
        /\ \E i \in ReportIdx(trace[p]) :
              /\ trace[p][i].body.dateRange = ArgValue.dateRange
              /\ trace[p][i].body.startDate = ""

(* Both dates came with values: the request is a custom range. *)
C28_WitnessCustom ==
    \E p \in Procs :
        /\ CustomQueryRan(p) /\ DateKeys \subseteq call[p].args
        /\ \E i \in ReportIdx(trace[p]) :
              /\ trace[p][i].body.dateRange = "custom"
              /\ trace[p][i].body.startDate = ArgValue.startDate
              /\ trace[p][i].body.endDate = ArgValue.endDate

(* C29, the states: the loop function is left only after wait_for_bg_tasks  *)
(* returned, with no background task running.                               *)
C29_ExitAfterWait ==
    main_loop.pc = "exit" => (main_loop.waited /\ main_loop.bg_tasks = 0)

(* C29, the steps: the while test goes on to process events while the       *)
(* shutdown event is not set and leaves the loop when it is; the loop is    *)
(* left only for the finally clause, on shutdown or on an exception;        *)
(* events are processed inside the loop only; the function is left only     *)
(* from the wait for the background tasks.                                  *)
C29_Steps ==
    LET a == main_loop
        b == main_loop'
    IN  /\ (a.pc = "while" /\ b.pc # "while") =>
              b.pc = IF a.shutdown_event THEN "finally" ELSE "unpark"
        /\ (a.pc # "finally" /\ b.pc = "finally") =>
              (a.pc \in {"while", "unpark"} /\ (a.shutdown_event \/ b.raised))
        /\ (a.pc = "unpark" /\ b.raised) => b.pc = "finally"
        /\ b.collected < a.collected => a.pc = "unpark"
        /\ (a.pc # "exit" /\ b.pc = "exit") =>
              (a.pc = "wait_for_bg_tasks" /\ a.bg_tasks = 0)
        /\ a.pc = "finally" => b.pc \in {"finally", "wait_for_bg_tasks"}

(* C29: the bot main loop keeps processing collected events until the       *)
(* shutdown event is set, then stops; on every exit path, an exception      *)
(* raised by event processing included, it waits for the background tasks   *)
(* to finish before the loop function returns.                              *)
C29_MainLoop ==
    /\ [] C29_ExitAfterWait
    /\ [][C29_Steps]_vars
    /\ (main_loop.shutdown_event ~> main_loop.pc = "exit")
    /\ (main_loop.raised ~> main_loop.pc = "exit")
    /\ ((main_loop.pc = "while" /\ ~main_loop.shutdown_event)
            ~> (main_loop.pc = "unpark" \/ main_loop.shutdown_event))

(* Event processing raised with no shutdown asked for, and the function was *)
(* left after the wait for the background tasks.                            *)
C29_Witness ==
    /\ main_loop.pc = "exit" /\ main_loop.raised /\ ~main_loop.shutdown_event
    /\ main_loop.waited /\ main_loop.arrived > 0

(* The exception path is waiting on a background task that still runs. *)
C29_WitnessWaiting ==
    /\ main_loop.pc = "wait_for_bg_tasks" /\ main_loop.raised
    /\ main_loop.bg_tasks > 0

(* The loop ended on shutdown after all events were processed. *)
C29_WitnessShutdown ==
    /\ main_loop.pc = "exit" /\ ~main_loop.raised /\ main_loop.shutdown_event
    /\ main_loop.arrived = MaxEvents /\ main_loop.collected = 0

B64Index(ch) == (CHOOSE i \in 1..64 : B64Alphabet[i] = ch) - 1

(* The bytes a base64 text stands for. *)
RECURSIVE b64decode(_)
b64decode(text) ==
    IF Len(text) < 4 THEN <<>>
    ELSE LET i1 == B64Index(text[1])
             i2 == B64Index(text[2])
         IN  IF text[3] = "=" THEN << i1 * 4 + i2 \div 16 >>
             ELSE IF text[4] = "=" 
                  THEN << i1 * 4 + i2 \div 16, (i2 % 16) * 16 + B64Index(text[3]) \div 4 >>
             ELSE << i1 * 4 + i2 \div 16, (i2 % 16) * 16 + B64Index(text[3]) \div 4,
                     (B64Index(text[3]) % 4) * 64 + B64Index(text[4]) >>
                  \o b64decode(SubSeq(text, 5, Len(text)))

(* pic is what install is to pass for file: its base64, "" when absent. *)
PictureOf(file, pic) ==
    IF ~file.exists THEN pic = <<>>
    ELSE Len(pic) % 4 = 0 /\ b64decode(pic) = file.bytes

(* C30: install() reaches the marketplace upsert call for every combination *)
(* of presence and absence of the two picture files, passing the base64 of  *)
(* a present file and the empty string for a missing one, when invoked      *)
(* through the bot as install_func as well as when run as a script.         *)
C30_InstallReachesUpsert ==
    install_run # NotRun =>
        /\ install_run.upsert /\ install_run.raised = ""
        /\ PictureOf(install_run.big, install_run.pic_big)
        /\ PictureOf(install_run.small, install_run.pic_small)

(* The same for the module run as a script, where logger is bound. *)
InstallAsScript ==
    (install_run # NotRun /\ install_run.invoked_as = "script") =>
        /\ install_run.upsert /\ install_run.raised = ""
        /\ PictureOf(install_run.big, install_run.pic_big)
        /\ PictureOf(install_run.small, install_run.pic_small)

====
